---- MODULE Spec2Model ----
(***************************************************************************)
(* Node Version & Execution Engine of flow_builder_app.                    *)
(*                                                                         *)
(* The persistent tables (NodeFamily, NodeVersion, NodeParameter,          *)
(* SubNodeParameterValue, NodeExecution) are the state; every HTTP handler *)
(* and every step of NodeRunner is an action.  A handler that runs to      *)
(* completion without yielding is one action; the concurrent scenarios     *)
(* split a handler at its database statements.                             *)
(***************************************************************************)
EXTENDS Integers, Sequences, FiniteSets, TLC

(***************************************************************************)
(* Bounds of the model.                                                    *)
(***************************************************************************)
MaxVersion == 2
MaxTime == 2
MaxClasses == 2

(***************************************************************************)
(* Universes of identifiers and values.                                    *)
(***************************************************************************)
Families == {"F1", "F2"}
VersionNumbers == 1 .. MaxVersion
VersionStates == {"draft", "published", "archived"}
Parameters == {"timeout", "path"}
Values == {"30", "60", "90"}
Absent == "absent"
ExecutionIds == {"e1"}
ExecutionStatuses == {"queued", "running", "completed", "failed", "stopped"}
\* NodeExecution.completed_at is nullable; clock readings start at 1
NullTime == 0

VARIABLES
    families,         \* names of the NodeFamily rows that exist
    is_deployed,      \* NodeFamily.is_deployed, by family
    versions,         \* NodeVersion rows: versions[f][n], state "none" = no row
    node_parameters,  \* NodeParameter rows: node_parameters[f][n][p], Absent = no row
    response,         \* what the last handler returned
    requests,         \* publish/deploy requests in flight (concurrent scenario)
    executions,       \* NodeExecution rows, status "none" = no row
    runner,           \* NodeRunner.run_standalone_async calls: position and the
                      \* in-memory execution object each one holds
    stops,            \* stop_execution requests between their read and their save
    now,              \* the clock read by timezone.now()
    subnode_parameter_values,  \* SubNodeParameterValue rows, Absent = no row
    parameter_values, \* ParameterValue rows, Absent = no row
    run,              \* what the last parameter resolution was given and returned
    links,            \* NodeVersionLink rows
    relationships,    \* NodeFamilyRelationship rows, <<parent, child>>
    subnodes,         \* ids of the SubNode rows that exist
    subnode_fields,   \* SubNode columns by id: original, version, is_deployed,
                      \* description
    activations,      \* activate_version requests between their writes
    connections,      \* WebSocketLogBroadcaster.connections
    message_queue,    \* WebSocketLogBroadcaster.message_queue
    _running,         \* WebSocketLogBroadcaster._running
    drain,            \* the _process_queue task: position, the message it
                      \* broadcasts, the connections left to send to, dead
    received,         \* by observer, the messages its send_json delivered
    enqueued,         \* number of enqueue calls so far; the n-th message is n
    is_active         \* Parameter.is_active of the catalog entries

dbVars == <<families, is_deployed, versions, node_parameters>>
execVars == <<executions, runner, stops, now>>
paramVars == <<subnode_parameter_values, parameter_values, run>>
linkVars == <<links, relationships, subnodes>>
subnodeVars == <<subnode_fields, activations>>
bcastVars == <<connections, message_queue, _running, drain, received, enqueued>>
vars == <<families, is_deployed, versions, node_parameters, response, requests,
          executions, runner, stops, now,
          subnode_parameter_values, parameter_values, run,
          links, relationships, subnodes, subnode_fields, activations,
          connections, message_queue, _running, drain, received, enqueued,
          is_active>>

(***************************************************************************)
(* NodeVersion rows.                                                       *)
(***************************************************************************)
NoRow == [state |-> "none", script |-> FALSE, changelog |-> "user"]

NodeVersion(state, script, changelog) ==
    [state |-> state, script |-> script, changelog |-> changelog]

NoParameters == [p \in Parameters |-> Absent]

VersionsOf(f) == {n \in VersionNumbers : versions[f][n].state # "none"}

PublishedOf(f) == {n \in VersionNumbers : versions[f][n].state = "published"}

MaxOf(S) == IF S = {} THEN 0 ELSE CHOOSE m \in S : \A k \in S : k <= m

has_deployed_versions(f) == PublishedOf(f) # {}

Response(status, detail) == [status |-> status, detail |-> detail]

\* get_object / get_object_or_404 of a version inside a family
VersionExists(f, n) == f \in families /\ versions[f][n].state # "none"

\* Mutant of ArchivePublished: the filter on state is lost, every version of
\* the family is archived.
ArchivePublished_without_state_filter(vs, f) ==
    [vs EXCEPT ![f] = [n \in VersionNumbers |->
        IF vs[f][n].state # "none"
        THEN [vs[f][n] EXCEPT !.state = "archived"]
        ELSE vs[f][n]]]

\* QuerySet.filter(family_id=f, state='published').update(state='archived')
ArchivePublished(vs, f) ==
    [vs EXCEPT ![f] = [n \in VersionNumbers |->
        IF vs[f][n].state = "published"
        THEN [vs[f][n] EXCEPT !.state = "archived"]
        ELSE vs[f][n]]]

\* ... .exclude(pk=version_obj.pk).update(state='archived')
ArchivePublishedExcept(vs, f, keep) ==
    [vs EXCEPT ![f] = [n \in VersionNumbers |->
        IF vs[f][n].state = "published" /\ n # keep
        THEN [vs[f][n] EXCEPT !.state = "archived"]
        ELSE vs[f][n]]]

TypeOK ==
    /\ families \subseteq Families
    /\ is_deployed \in [Families -> BOOLEAN]
    /\ \A f \in Families : \A n \in VersionNumbers :
          /\ versions[f][n].state \in VersionStates \cup {"none"}
          /\ versions[f][n].script \in BOOLEAN
          /\ node_parameters[f][n] \in [Parameters -> Values \cup {Absent}]
          /\ ~VersionExists(f, n) =>
                versions[f][n] = NoRow /\ node_parameters[f][n] = NoParameters

(***************************************************************************)
(* NodeExecution rows.                                                     *)
(***************************************************************************)
NoExecution ==
    [status |-> "none", started_at |-> NullTime, completed_at |-> NullTime,
     log |-> <<>>, family |-> "F1", version |-> 1]

NodeExecution(status, started_at, log, f, n) ==
    [status |-> status, started_at |-> started_at, completed_at |-> NullTime,
     log |-> log, family |-> f, version |-> n]

IdleRunner == [pc |-> "new", execution |-> NoExecution]

IdleStop == [pc |-> "idle", execution |-> NoExecution]

\* the primary key of the next NodeExecution row
FreeExecutionIds == {e \in ExecutionIds : executions[e].status = "none"}

\* NodeExecution.version is on_delete=PROTECT
HasExecutions(f, n) ==
    \E e \in ExecutionIds :
        /\ executions[e].status # "none"
        /\ executions[e].family = f
        /\ executions[e].version = n

InitExecutions ==
    /\ executions = [e \in ExecutionIds |-> NoExecution]
    /\ runner = [e \in ExecutionIds |-> IdleRunner]
    /\ stops = [e \in ExecutionIds |-> IdleStop]
    /\ now = 1

(***************************************************************************)
(* Parameter catalog and the per-subnode value rows.                       *)
(***************************************************************************)
SubNodeIds == {"sn1", "sn2", "sn3"}
\* the subnode the requests of the parameter and link specifications address
SubNodes == {"sn1"}
NoSubNode == "none"

\* Parameter.default_value of the catalog entries
default_value == [p \in Parameters |-> "30"]

\* SubNode.node_family
node_family == [sn \in SubNodeIds |-> "F1"]

NoRun ==
    [resolver |-> "none", family |-> "F1", version |-> 1,
     subnode_id |-> NoSubNode, params |-> NoParameters,
     run_params |-> NoParameters, raised |-> FALSE]

InitParameterValues ==
    /\ subnode_parameter_values = [sn \in SubNodeIds |-> NoParameters]
    /\ parameter_values = [sn \in SubNodeIds |-> NoParameters]
    /\ run = NoRun
    /\ is_active = [p \in Parameters |-> TRUE]

(***************************************************************************)
(* NodeVersionLink rows and what creates them outside link_subversion:     *)
(* SubNode.save and the post_save receiver link_existing_subnodes.         *)
(***************************************************************************)
NodeVersionLink(pf, pn, cf, cn, order) ==
    [parent |-> <<pf, pn>>, child |-> <<cf, cn>>, order |-> order]

\* unique_together = ('parent_version', 'child_version')
Linked(ls, parent, child) ==
    \E l \in ls : l.parent = parent /\ l.child = child

child_links(f, n) == {l \in links : l.parent = <<f, n>>}

SubNodesOf(f) == {sn \in subnodes : node_family[sn] = f}

\* the rows of the family in a versions table
RowsOf(vs, f) == {m \in VersionNumbers : vs[f][m].state # "none"}

\* link_existing_subnodes for the new version n of f, vs being the table
\* that already holds it: for every subnode of the family, a link of order 0
\* from the new version to every version of the subnode's family, which is
\* the same family, the new version included
link_existing_subnodes(f, n, vs) ==
    IF SubNodesOf(f) = {} THEN {}
    ELSE {NodeVersionLink(f, n, f, m, 0) : m \in RowsOf(vs, f)}

\* with two subnodes the receiver collects every link twice before the one
\* bulk_create, which then violates unique_together
link_existing_subnodes_raises(f) == Cardinality(SubNodesOf(f)) >= 2

\* SubNode.save for a new subnode of f: a link of order 0 for every pair of
\* versions of the family that is not linked yet
SubNode_save_links(f) ==
    {NodeVersionLink(f, n, f, m, 0) : n \in RowsOf(versions, f), m \in RowsOf(versions, f)}
        \ {l \in {NodeVersionLink(f, n, f, m, 0) :
                      n \in RowsOf(versions, f), m \in RowsOf(versions, f)} :
              Linked(links, l.parent, l.child)}

\* on_delete=CASCADE of both ends of a link
LinksWithout(ls, f, ns) ==
    {l \in ls : ~(\/ (l.parent[1] = f /\ l.parent[2] \in ns)
                  \/ (l.child[1] = f /\ l.child[2] \in ns))}

InitLinks ==
    /\ links = {}
    /\ relationships = {}
    /\ subnodes = {}

Requests == {"r1", "r2"}

IdleRequest ==
    [pc |-> "idle", op |-> "publish", family |-> "F1", version |-> 1,
     version_obj |-> NoRow, status |-> 0]

(***************************************************************************)
(* SubNode columns.  A row outside subnodes holds the column defaults, the  *)
(* values a plain creation gives: version 1, no original, not deployed.     *)
(***************************************************************************)
NoOriginal == "none"

Descriptions == {"d0", "d1"}

SubNode(original, version, deployed, description) ==
    [original |-> original, version |-> version, is_deployed |-> deployed,
     description |-> description]

IdleActivation ==
    [pc |-> "idle", original_ref |-> "sn1", version_number |-> 1, updated |-> 0]

InitSubNodeFields ==
    /\ subnode_fields = [sn \in SubNodeIds |-> SubNode(NoOriginal, 1, FALSE, "d0")]
    /\ activations = [r \in Requests |-> IdleActivation]

(***************************************************************************)
(* WebSocketLogBroadcaster.__init__: the module-level singleton.            *)
(***************************************************************************)
Observers == {"ws1", "ws2"}

IdleDrain == [pc |-> "not_started", message |-> 0, todo |-> {}, dead |-> {}]

InitBroadcaster ==
    /\ connections = {}
    /\ message_queue = <<>>
    /\ _running = FALSE
    /\ drain = IdleDrain
    /\ received = [ws \in Observers |-> <<>>]
    /\ enqueued = 0

Init ==
    /\ requests = [r \in Requests |-> IdleRequest]
    /\ InitExecutions
    /\ InitSubNodeFields
    /\ InitBroadcaster
    /\ InitParameterValues
    /\ InitLinks
    /\ families = {}
    /\ is_deployed = [f \in Families |-> FALSE]
    /\ versions = [f \in Families |-> [n \in VersionNumbers |-> NoRow]]
    /\ node_parameters = [f \in Families |-> [n \in VersionNumbers |-> NoParameters]]
    /\ response = Response(0, "none")

(***************************************************************************)
(* Mutants of publish: without the early return for a published version,   *)
(* and with the script check made after the archive update.                *)
(***************************************************************************)
publish_without_published_check(f, n) ==
    IF ~VersionExists(f, n)
    THEN /\ response' = Response(404, "not_found")
         /\ UNCHANGED dbVars
    ELSE IF ~versions[f][n].script
    THEN /\ response' = Response(400, "no_script")
         /\ UNCHANGED dbVars
    ELSE /\ versions' = [ArchivePublished(versions, f) EXCEPT
                            ![f][n] = [versions[f][n] EXCEPT !.state = "published"]]
         /\ is_deployed' = [is_deployed EXCEPT ![f] = TRUE]
         /\ response' = Response(200, "published")
         /\ UNCHANGED <<families, node_parameters>>

publish_script_check_after_archive(f, n) ==
    IF ~VersionExists(f, n)
    THEN /\ response' = Response(404, "not_found")
         /\ UNCHANGED dbVars
    ELSE IF versions[f][n].state = "published"
    THEN /\ response' = Response(200, "already_published")
         /\ UNCHANGED dbVars
    ELSE IF ~versions[f][n].script
    THEN /\ versions' = ArchivePublished(versions, f)
         /\ response' = Response(400, "no_script")
         /\ UNCHANGED <<families, is_deployed, node_parameters>>
    ELSE /\ versions' = [ArchivePublished(versions, f) EXCEPT
                            ![f][n] = [versions[f][n] EXCEPT !.state = "published"]]
         /\ is_deployed' = [is_deployed EXCEPT ![f] = TRUE]
         /\ response' = Response(200, "published")
         /\ UNCHANGED <<families, node_parameters>>

(***************************************************************************)
(* VersionViewSet.publish                                                  *)
(***************************************************************************)
publish(f, n) ==
    IF ~VersionExists(f, n)
    THEN /\ response' = Response(404, "not_found")
         /\ UNCHANGED dbVars
    ELSE IF versions[f][n].state = "published"
    THEN /\ response' = Response(200, "already_published")
         /\ UNCHANGED dbVars
    ELSE IF ~versions[f][n].script
    THEN /\ response' = Response(400, "no_script")
         /\ UNCHANGED dbVars
    ELSE /\ versions' = [ArchivePublished(versions, f) EXCEPT
                            ![f][n] = [versions[f][n] EXCEPT !.state = "published"]]
         /\ is_deployed' = [is_deployed EXCEPT ![f] = TRUE]
         /\ response' = Response(200, "published")
         /\ UNCHANGED <<families, node_parameters>>

(***************************************************************************)
(* DeploymentViewSet.deploy                                                *)
(***************************************************************************)
deploy(f, n) ==
    IF ~VersionExists(f, n)
    THEN /\ response' = Response(404, "not_found")
         /\ UNCHANGED dbVars
    ELSE IF versions[f][n].state = "published"
    THEN /\ response' = Response(200, "already_deployed")
         /\ UNCHANGED dbVars
    ELSE IF ~versions[f][n].script
    THEN /\ response' = Response(400, "no_script")
         /\ UNCHANGED dbVars
    ELSE /\ versions' = [ArchivePublishedExcept(versions, f, n) EXCEPT
                            ![f][n] = [versions[f][n] EXCEPT !.state = "published"]]
         /\ is_deployed' = [is_deployed EXCEPT ![f] = TRUE]
         /\ response' = Response(200, "deployed")
         /\ UNCHANGED <<families, node_parameters>>

(***************************************************************************)
(* DeploymentViewSet.undeploy                                              *)
(***************************************************************************)
undeploy(f, n) ==
    IF ~VersionExists(f, n)
    THEN /\ response' = Response(404, "not_found")
         /\ UNCHANGED dbVars
    ELSE IF versions[f][n].state # "published"
    THEN /\ response' = Response(200, "already_undeployed")
         /\ UNCHANGED dbVars
    ELSE LET vs == [versions EXCEPT ![f][n].state = "draft"]
             has_published == \E k \in VersionNumbers : vs[f][k].state = "published"
         IN  /\ versions' = vs
             /\ is_deployed' = [is_deployed EXCEPT ![f] = has_published]
             /\ response' = Response(200, "undeployed")
             /\ UNCHANGED <<families, node_parameters>>

(***************************************************************************)
(* VersionViewSet.rollback.  The changelog text is built with              *)
(* self.get_active_version(family_id); VersionViewSet defines no such      *)
(* method, so building it raises AttributeError inside the atomic block,   *)
(* the block is rolled back and the request ends in a server error.        *)
(***************************************************************************)
VersionViewSet_has_get_active_version == FALSE

rollback(f, n) ==
    IF ~(VersionExists(f, n) /\ versions[f][n].state \in {"published", "archived"})
    THEN /\ response' = Response(404, "not_found")
         /\ UNCHANGED dbVars
    ELSE IF VersionViewSet_has_get_active_version
    THEN /\ versions' = [ArchivePublished(versions, f) EXCEPT
                            ![f][n] = [versions[f][n] EXCEPT
                                          !.state = "published",
                                          !.changelog = "rollback"]]
         /\ is_deployed' = [is_deployed EXCEPT ![f] = TRUE]
         /\ response' = Response(200, "rolled_back")
         /\ UNCHANGED <<families, node_parameters>>
    ELSE /\ response' = Response(500, "attribute_error")
         /\ UNCHANGED dbVars

(***************************************************************************)
(* VersionViewSet.destroy                                                  *)
(***************************************************************************)
\* destroy with the check for the family's only version left out
Version_destroy_without_only_version_check(f, n) ==
    IF ~VersionExists(f, n)
    THEN /\ response' = Response(404, "not_found")
         /\ UNCHANGED <<dbVars, links>>
    ELSE IF versions[f][n].state = "published"
    THEN /\ response' = Response(400, "published")
         /\ UNCHANGED <<dbVars, links>>
    ELSE /\ versions' = [versions EXCEPT ![f][n] = NoRow]
         /\ node_parameters' = [node_parameters EXCEPT ![f][n] = NoParameters]
         /\ links' = LinksWithout(links, f, {n})
         /\ response' = Response(204, "deleted")
         /\ UNCHANGED <<families, is_deployed>>

Version_destroy(f, n) ==
    IF ~VersionExists(f, n)
    THEN /\ response' = Response(404, "not_found")
         /\ UNCHANGED <<dbVars, links>>
    ELSE IF versions[f][n].state = "published"
    THEN /\ response' = Response(400, "published")
         /\ UNCHANGED <<dbVars, links>>
    ELSE IF Cardinality(VersionsOf(f)) = 1
    THEN /\ response' = Response(400, "only_version")
         /\ UNCHANGED <<dbVars, links>>
    ELSE IF HasExecutions(f, n)
    THEN \* ProtectedError
         /\ response' = Response(500, "protected")
         /\ UNCHANGED <<dbVars, links>>
    ELSE /\ versions' = [versions EXCEPT ![f][n] = NoRow]
         /\ node_parameters' = [node_parameters EXCEPT ![f][n] = NoParameters]
         /\ links' = LinksWithout(links, f, {n})
         /\ response' = Response(204, "deleted")
         /\ UNCHANGED <<families, is_deployed>>

(***************************************************************************)
(* VersionContentViewSet.script                                            *)
(***************************************************************************)
VersionContent_script(f, n) ==
    IF ~VersionExists(f, n)
    THEN /\ response' = Response(404, "not_found")
         /\ UNCHANGED dbVars
    ELSE IF versions[f][n].state = "published"
    THEN /\ response' = Response(400, "published")
         /\ UNCHANGED dbVars
    ELSE /\ versions' = [versions EXCEPT ![f][n].script = TRUE]
         /\ response' = Response(200, "script_updated")
         /\ UNCHANGED <<families, is_deployed, node_parameters>>

(***************************************************************************)
(* VersionViewSet.create, with NodeVersionCreateSerializer.  source = 0 is *)
(* a request without source_version.  The serializer looks the source up   *)
(* in the family named by context['family_id'], a key the view never puts  *)
(* in the serializer context, so the lookup is made in no family.          *)
(***************************************************************************)
serializer_context_family_id == {}

validate_source_version(value) ==
    \/ value = 0
    \/ \E f \in serializer_context_family_id : VersionExists(f, value)

\* the body of the atomic block once an active version was found: the new
\* row, the receiver's links, the copy of the script, of the parameters and
\* of the links of the source.  A copied link that repeats a link the
\* receiver has just made violates unique_together: IntegrityError, and the
\* block is rolled back.
CreateVersionFrom(f, source_version_num) ==
    LET max_version == MaxOf(VersionsOf(f))
        new == max_version + 1
        created == [versions EXCEPT ![f][new] = NodeVersion("draft", FALSE, "user")]
        signalled == link_existing_subnodes(f, new, created)
        copied == {NodeVersionLink(f, new, l.child[1], l.child[2], l.order) :
                      l \in child_links(f, source_version_num)}
    IN  /\ new <= MaxVersion
        /\ IF link_existing_subnodes_raises(f)
           THEN /\ response' = Response(500, "integrity_error")
                /\ UNCHANGED <<dbVars, links>>
           ELSE IF ~VersionExists(f, source_version_num)
           THEN \* get_object_or_404 raises inside the atomic block
                /\ response' = Response(404, "source_not_found")
                /\ UNCHANGED <<dbVars, links>>
           ELSE IF \E l \in copied : Linked(signalled, l.parent, l.child)
           THEN /\ response' = Response(500, "integrity_error")
                /\ UNCHANGED <<dbVars, links>>
           ELSE /\ versions' = [versions EXCEPT ![f][new] =
                      NodeVersion("draft", versions[f][source_version_num].script, "user")]
                /\ node_parameters' = [node_parameters EXCEPT ![f][new] =
                      node_parameters[f][source_version_num]]
                /\ links' = links \cup signalled \cup copied
                /\ response' = Response(201, "created")
                /\ UNCHANGED <<families, is_deployed>>

\* create without the demand for a published version
Version_create_without_active_version_check(f, source) ==
    IF f \notin families
    THEN /\ response' = Response(404, "not_found")
         /\ UNCHANGED <<dbVars, links>>
    ELSE IF ~validate_source_version(source)
    THEN /\ response' = Response(400, "invalid_source")
         /\ UNCHANGED <<dbVars, links>>
    ELSE IF VersionsOf(f) = {}
    THEN /\ response' = Response(400, "no_active_version")
         /\ UNCHANGED <<dbVars, links>>
    ELSE CreateVersionFrom(f, IF source # 0 THEN source
                              ELSE IF PublishedOf(f) # {} THEN MaxOf(PublishedOf(f))
                              ELSE MaxOf(VersionsOf(f)))

Version_create(f, source) ==
    IF f \notin families
    THEN /\ response' = Response(404, "not_found")
         /\ UNCHANGED <<dbVars, links>>
    ELSE IF ~validate_source_version(source)
    THEN /\ response' = Response(400, "invalid_source")
         /\ UNCHANGED <<dbVars, links>>
    ELSE IF PublishedOf(f) = {}
    THEN /\ response' = Response(400, "no_active_version")
         /\ UNCHANGED <<dbVars, links>>
    ELSE LET active_version == MaxOf(PublishedOf(f))
         IN  CreateVersionFrom(f, IF source # 0 THEN source ELSE active_version)

(***************************************************************************)
(* NodeFamilyViewSet: create (ModelViewSet), destroy, clone, import_family *)
(***************************************************************************)
NodeFamily_create(name) ==
    IF name \in families
    THEN /\ response' = Response(400, "name_exists")
         /\ UNCHANGED dbVars
    ELSE /\ families' = families \cup {name}
         /\ is_deployed' = [is_deployed EXCEPT ![name] = FALSE]
         /\ response' = Response(201, "created")
         /\ UNCHANGED <<versions, node_parameters>>

NodeFamily_destroy(f) ==
    IF f \notin families
    THEN /\ response' = Response(404, "not_found")
         /\ UNCHANGED <<dbVars, linkVars, subnode_parameter_values, parameter_values>>
    ELSE IF has_deployed_versions(f)
    THEN /\ response' = Response(400, "deployed_versions")
         /\ UNCHANGED <<dbVars, linkVars, subnode_parameter_values, parameter_values>>
    ELSE IF \E n \in VersionNumbers : HasExecutions(f, n)
    THEN \* ProtectedError
         /\ response' = Response(500, "protected")
         /\ UNCHANGED <<dbVars, linkVars, subnode_parameter_values, parameter_values>>
    ELSE /\ families' = families \ {f}
         /\ is_deployed' = [is_deployed EXCEPT ![f] = FALSE]
         /\ versions' = [versions EXCEPT ![f] = [n \in VersionNumbers |-> NoRow]]
         /\ node_parameters' = [node_parameters EXCEPT
                                   ![f] = [n \in VersionNumbers |-> NoParameters]]
         \* on_delete=CASCADE: links, relationships, subnodes and their values
         /\ links' = LinksWithout(links, f, VersionNumbers)
         /\ relationships' = {r \in relationships : r[1] # f /\ r[2] # f}
         /\ subnodes' = subnodes \ SubNodesOf(f)
         /\ subnode_parameter_values' = [sn \in SubNodeIds |->
               IF sn \in SubNodesOf(f) THEN NoParameters
               ELSE subnode_parameter_values[sn]]
         /\ parameter_values' = [sn \in SubNodeIds |->
               IF sn \in SubNodesOf(f) THEN NoParameters ELSE parameter_values[sn]]
         /\ response' = Response(204, "deleted")

\* NodeParameter.node_version has related_name='parameters': a NodeVersion
\* has no attribute nodeparameter_set, and clone's first use of it raises
\* AttributeError.  The handler catches it inside the atomic block, so what
\* was created before it (the family, the first version) is committed.
NodeVersion_has_nodeparameter_set == FALSE

clone(f, new_name) ==
    IF f \notin families
    THEN /\ response' = Response(404, "not_found")
         /\ UNCHANGED dbVars
    ELSE IF new_name \in families
    THEN \* IntegrityError on the unique name: the block is rolled back
         /\ response' = Response(500, "clone_failed")
         /\ UNCHANGED dbVars
    ELSE LET \* family.versions.all() is ordered by -version
             first == MaxOf(VersionsOf(f))
             cloned == IF NodeVersion_has_nodeparameter_set
                       THEN VersionsOf(f)
                       ELSE VersionsOf(f) \cap {first}
         IN  /\ families' = families \cup {new_name}
             /\ is_deployed' = [is_deployed EXCEPT ![new_name] = FALSE]
             /\ versions' = [versions EXCEPT ![new_name] =
                    [n \in VersionNumbers |->
                        IF n \in cloned
                        THEN NodeVersion(versions[f][n].state, versions[f][n].script, "cloned")
                        ELSE NoRow]]
             /\ node_parameters' = [node_parameters EXCEPT ![new_name] =
                    [n \in VersionNumbers |->
                        IF n \in cloned /\ NodeVersion_has_nodeparameter_set
                        THEN node_parameters[f][n]
                        ELSE NoParameters]]
             /\ response' = IF cloned = VersionsOf(f)
                            THEN Response(201, "cloned")
                            ELSE Response(500, "clone_failed")

\* An import file: a list of version entries.  version = 0 is an entry
\* without the 'version' key.
ImportItems == [version : 0 .. MaxVersion, state : VersionStates]

ImportData == UNION {[1 .. k -> ImportItems] : k \in 0 .. MaxVersion}

\* index of the first entry whose 'version' key is missing (KeyError)
FirstKeyError(data) ==
    IF \E i \in 1 .. Len(data) : data[i].version = 0
    THEN CHOOSE i \in 1 .. Len(data) :
            /\ data[i].version = 0
            /\ \A j \in 1 .. (i - 1) : data[j].version # 0
    ELSE Len(data) + 1

\* unique_together (family, version): a second entry with the same number
HasDuplicate(data, upto) ==
    \E i, j \in 1 .. upto : i # j /\ data[i].version = data[j].version

import_family(name, data) ==
    IF name \in families \/ HasDuplicate(data, FirstKeyError(data) - 1)
    THEN \* IntegrityError: the atomic block is rolled back
         /\ response' = Response(500, "import_failed")
         /\ UNCHANGED dbVars
    ELSE LET upto == FirstKeyError(data) - 1
             created == {data[i].version : i \in 1 .. upto}
             entry(n) == CHOOSE i \in 1 .. upto : data[i].version = n
         IN  /\ families' = families \cup {name}
             /\ is_deployed' = [is_deployed EXCEPT ![name] = FALSE]
             /\ versions' = [versions EXCEPT ![name] =
                    [n \in VersionNumbers |->
                        IF n \in created
                        THEN NodeVersion(data[entry(n)].state, FALSE, "user")
                        ELSE NoRow]]
             /\ response' = IF upto = Len(data)
                            THEN Response(201, "imported")
                            ELSE Response(400, "missing_field")
             /\ UNCHANGED node_parameters

(***************************************************************************)
(* The requests of the version-lifecycle scenario.  Version-level requests *)
(* and imports address the family F1; F2 is the name a family is cloned    *)
(* to.  Every handler runs to completion before the next request starts.   *)
(***************************************************************************)
RequestFamilies == {"F1"}

Next ==
    \/ \E f \in RequestFamilies, n \in VersionNumbers : publish(f, n) /\ UNCHANGED <<is_active, subnodeVars, bcastVars, requests, execVars, paramVars, linkVars>>
    \/ \E f \in RequestFamilies, n \in VersionNumbers : deploy(f, n) /\ UNCHANGED <<is_active, subnodeVars, bcastVars, requests, execVars, paramVars, linkVars>>
    \/ \E f \in RequestFamilies, n \in VersionNumbers : undeploy(f, n) /\ UNCHANGED <<is_active, subnodeVars, bcastVars, requests, execVars, paramVars, linkVars>>
    \/ \E f \in RequestFamilies, n \in VersionNumbers : rollback(f, n) /\ UNCHANGED <<is_active, subnodeVars, bcastVars, requests, execVars, paramVars, linkVars>>
    \/ \E f \in RequestFamilies, n \in VersionNumbers : Version_destroy(f, n) /\ UNCHANGED <<is_active, subnodeVars, bcastVars, requests, execVars, paramVars, relationships, subnodes>>
    \/ \E f \in RequestFamilies, n \in VersionNumbers : VersionContent_script(f, n) /\ UNCHANGED <<is_active, subnodeVars, bcastVars, requests, execVars, paramVars, linkVars>>
    \/ \E f \in RequestFamilies, source \in 0 .. MaxVersion : Version_create(f, source) /\ UNCHANGED <<is_active, subnodeVars, bcastVars, requests, execVars, paramVars, relationships, subnodes>>
    \/ \E name \in Families : NodeFamily_create(name) /\ UNCHANGED <<is_active, subnodeVars, bcastVars, requests, execVars, paramVars, linkVars>>
    \/ \E f \in Families : NodeFamily_destroy(f) /\ UNCHANGED <<is_active, subnodeVars, bcastVars, requests, execVars, run>>
    \/ \E f \in Families, new_name \in Families : clone(f, new_name) /\ UNCHANGED <<is_active, subnodeVars, bcastVars, requests, execVars, paramVars, linkVars>>
    \/ \E name \in RequestFamilies :
          \E data \in (IF name \in families THEN {<<>>} ELSE ImportData) :
             import_family(name, data) /\ UNCHANGED <<is_active, subnodeVars, bcastVars, requests, execVars, paramVars, linkVars>>

Spec == Init /\ [][Next]_vars

(***************************************************************************)
(* Concurrent publish / deploy: the handler split at its database          *)
(* statements.  get_object and the two checks run before the atomic block; *)
(* the block holds the archive update, version_obj.save() and              *)
(* family.save().  transaction.atomic() takes no lock and the handler uses *)
(* no select_for_update, so the statements of two requests interleave.     *)
(***************************************************************************)
publish_get_object(r, op, f, n) ==
    /\ requests[r].pc = "idle"
    /\ VersionExists(f, n)
    /\ requests' = [requests EXCEPT ![r] =
          IF versions[f][n].state = "published"
          THEN [pc |-> "done", op |-> op, family |-> f, version |-> n,
                version_obj |-> versions[f][n], status |-> 200]
          ELSE IF ~versions[f][n].script
          THEN [pc |-> "done", op |-> op, family |-> f, version |-> n,
                version_obj |-> versions[f][n], status |-> 400]
          ELSE [pc |-> "archive", op |-> op, family |-> f, version |-> n,
                version_obj |-> versions[f][n], status |-> 0]]
    /\ UNCHANGED <<dbVars, response>>

publish_archive_others(r) ==
    /\ requests[r].pc = "archive"
    /\ versions' = IF requests[r].op = "deploy"
                   THEN ArchivePublishedExcept(versions, requests[r].family,
                                               requests[r].version)
                   ELSE ArchivePublished(versions, requests[r].family)
    /\ requests' = [requests EXCEPT ![r].pc = "save"]
    /\ UNCHANGED <<families, is_deployed, node_parameters, response>>

\* version_obj.state = 'published'; version_obj.save(): every field of the
\* object read by get_object is written back.
publish_save_version(r) ==
    /\ requests[r].pc = "save"
    /\ versions' = [versions EXCEPT ![requests[r].family][requests[r].version] =
                      [requests[r].version_obj EXCEPT !.state = "published"]]
    /\ requests' = [requests EXCEPT ![r].pc = "family"]
    /\ UNCHANGED <<families, is_deployed, node_parameters, response>>

publish_save_family(r) ==
    /\ requests[r].pc = "family"
    /\ is_deployed' = [is_deployed EXCEPT ![requests[r].family] = TRUE]
    /\ requests' = [requests EXCEPT ![r].pc = "done", ![r].status = 200]
    /\ UNCHANGED <<families, versions, node_parameters, response>>

\* The tables the concurrent requests start from: one family whose versions
\* are in any states the sequential handlers leave behind, at most one of
\* them published.
InitPublish ==
    /\ requests = [r \in Requests |-> IdleRequest]
    /\ InitExecutions
    /\ InitSubNodeFields
    /\ InitBroadcaster
    /\ InitParameterValues
    /\ InitLinks
    /\ families = {"F1"}
    /\ versions \in [Families -> [VersionNumbers ->
          [state : VersionStates, script : BOOLEAN, changelog : {"user"}] \cup {NoRow}]]
    /\ \A n \in VersionNumbers : versions["F2"][n] = NoRow
    /\ \A n \in VersionNumbers : versions["F1"][n] # NoRow
    /\ Cardinality(PublishedOf("F1")) <= 1
    /\ \A n \in PublishedOf("F1") : versions["F1"][n].script
    /\ is_deployed = [f \in Families |-> f = "F1" /\ PublishedOf("F1") # {}]
    /\ node_parameters = [f \in Families |-> [n \in VersionNumbers |-> NoParameters]]
    /\ response = Response(0, "none")

NextPublish ==
    \/ \E r \in Requests, op \in {"publish", "deploy"} :
          \E f \in RequestFamilies, n \in VersionNumbers : publish_get_object(r, op, f, n) /\ UNCHANGED <<is_active, subnodeVars, bcastVars, execVars, paramVars, linkVars>>
    \/ \E r \in Requests : publish_archive_others(r) /\ UNCHANGED <<is_active, subnodeVars, bcastVars, execVars, paramVars, linkVars>>
    \/ \E r \in Requests : publish_save_version(r) /\ UNCHANGED <<is_active, subnodeVars, bcastVars, execVars, paramVars, linkVars>>
    \/ \E r \in Requests : publish_save_family(r) /\ UNCHANGED <<is_active, subnodeVars, bcastVars, execVars, paramVars, linkVars>>

SpecPublish == InitPublish /\ [][NextPublish]_vars

(***************************************************************************)
(* Parameter merge of NodeRunner._execute_node_sync.                       *)
(***************************************************************************)
\* dict.update with the arguments exchanged: the keys already present win
update_keeps_existing(d, u) ==
    [k \in Parameters |-> IF d[k] # Absent THEN d[k] ELSE u[k]]

\* dict.update: every key of u replaces or adds the key in d
update(d, u) ==
    [k \in Parameters |-> IF u[k] # Absent THEN u[k] ELSE d[k]]

\* run_params: the version's NodeParameter rows, updated with the subnode's
\* SubNodeParameterValue rows when a subnode_id is given, updated with the
\* caller's params when there are any.  Parameter.default_value is not read.
RunParams_overrides_attached_only(f, n, subnode_id, params) ==
    LET version_params == node_parameters[f][n]
        with_subnode == IF subnode_id # NoSubNode
                        THEN [k \in Parameters |->
                                 IF version_params[k] # Absent
                                 THEN update(version_params,
                                             subnode_parameter_values[subnode_id])[k]
                                 ELSE Absent]
                        ELSE version_params
    IN  update(with_subnode, params)

RunParams(f, n, subnode_id, params) ==
    LET version_params == node_parameters[f][n]
        with_subnode == IF subnode_id # NoSubNode
                        THEN update(version_params,
                                    subnode_parameter_values[subnode_id])
                        ELSE version_params
    IN  update(with_subnode, params)

(***************************************************************************)
(* Executions: ExecutionViewSet.execute, NodeRunner.run_standalone_async   *)
(* with NodeRunner._execute_node_sync, ExecutionViewSet.stop_execution.    *)
(* Each action is one database write of the code, so that the writes of a  *)
(* run and of a stop request interleave as they can at run time.           *)
(***************************************************************************)
Tick ==
    /\ now < MaxTime
    /\ now' = now + 1
    /\ UNCHANGED <<executions, runner, stops, response>>

execute(f, n) ==
    /\ FreeExecutionIds # {}
    /\ IF ~VersionExists(f, n)
       THEN /\ response' = Response(404, "not_found")
            /\ UNCHANGED execVars
       ELSE IF versions[f][n].state # "published"
       THEN /\ response' = Response(400, "not_published")
            /\ UNCHANGED execVars
       ELSE LET e == CHOOSE x \in FreeExecutionIds : TRUE
            IN  /\ executions' = [executions EXCEPT
                      ![e] = NodeExecution("queued", now, <<"queued">>, f, n)]
                /\ response' = Response(202, "queued")
                /\ UNCHANGED <<runner, stops, now>>

\* _log: the line is appended to the log of the object the run holds, and
\* save(update_fields=["log"]) writes that log, and only the log, to the row
Logged(e, msg) == Append(runner[e].execution.log, msg)

LogStep(e, msg, pc) ==
    /\ runner' = [runner EXCEPT ![e].execution.log = Logged(e, msg),
                                ![e].pc = pc]
    /\ executions' = [executions EXCEPT ![e].log = Logged(e, msg)]
    /\ UNCHANGED <<stops, now, response>>

run_standalone_async_create(e, f, n) ==
    /\ e \in FreeExecutionIds
    /\ runner[e].pc = "new"
    /\ VersionExists(f, n)
    /\ LET execution == NodeExecution("running", now, <<>>, f, n)
       IN  /\ executions' = [executions EXCEPT ![e] = execution]
           /\ runner' = [runner EXCEPT ![e] = [pc |-> "log_start",
                                               execution |-> execution]]
    /\ UNCHANGED <<stops, now, response>>

run_standalone_async_log_start(e) ==
    /\ runner[e].pc = "log_start"
    /\ LogStep(e, "starting_execution", "sync_start")

\* nv = NodeVersion.objects.get, the first log line, the script check and
\* the loading of the module, whose top-level code may raise
execute_node_sync_start(e, loads) ==
    /\ runner[e].pc = "sync_start"
    /\ LET nv == versions[runner[e].execution.family][runner[e].execution.version]
       IN  LogStep(e, "starting_nodeversion",
                   IF nv.script /\ loads THEN "sync_params" ELSE "sync_error")

execute_node_sync_params(e) ==
    /\ runner[e].pc = "sync_params"
    /\ RunParams(runner[e].execution.family, runner[e].execution.version,
                 NoSubNode, NoParameters) \in [Parameters -> Values \cup {Absent}]
    /\ LogStep(e, "executing_with_parameters", "sync_run")

\* A loaded module as the entry-point search sees it: its module-level run
\* (absent, returning or raising) and the classes dir(module) lists, in that
\* order, each with a constructor that may raise and a run method;
\* dir(module) sorts the names, so the class the script defines first
\* (defined_first; none when every class is imported) may stand anywhere
EntryPoints == {"none", "returns", "raises"}

Classes == [init_raises : BOOLEAN, run : EntryPoints, defined_first : BOOLEAN]

Modules ==
    {module \in [run : EntryPoints,
                 classes : UNION {[1 .. k -> Classes] : k \in 0 .. MaxClasses}] :
        Cardinality({i \in DOMAIN module.classes :
                        module.classes[i].defined_first}) <= 1}

\* the for loop over dir(module): every class is instantiated with no
\* argument before its run method is looked for; the first class that has one
\* is run and ends the loop
RECURSIVE ScanClasses(_, _)
ScanClasses(classes, i) ==
    IF i > Len(classes) THEN "no_entry_point"
    ELSE IF classes[i].init_raises THEN "raises"
    ELSE IF classes[i].run = "none" THEN ScanClasses(classes, i + 1)
    ELSE IF classes[i].run = "returns" THEN "executed_class"
    ELSE "raises"

EntryPoint(module) ==
    IF module.run = "returns" THEN "executed"
    ELSE IF module.run = "raises" THEN "raises"
    ELSE ScanClasses(module.classes, 1)

\* what the search calls, in order: <<"run", 0>> is the module-level run,
\* <<"init", i>> the constructor of the i-th class of dir(module),
\* <<"setattr", i>> the loop that assigns the matching parameters to the
\* instance, <<"run", i>> its run method
RECURSIVE ClassCalls(_, _)
ClassCalls(classes, i) ==
    IF i > Len(classes) THEN <<>>
    ELSE IF classes[i].init_raises THEN <<<<"init", i>>>>
    ELSE <<<<"init", i>>, <<"setattr", i>>>>
         \o (IF classes[i].run = "none" THEN ClassCalls(classes, i + 1)
             ELSE <<<<"run", i>>>>)

Calls(module) ==
    IF module.run # "none" THEN <<<<"run", 0>>>>
    ELSE ClassCalls(module.classes, 1)

\* the search for an entry point and its call: the entry point returns, the
\* script has no entry point, or a constructor or the entry point raises
execute_node_sync_run(e, module) ==
    /\ runner[e].pc = "sync_run"
    /\ LET outcome == EntryPoint(module)
       IN  CASE outcome = "executed" ->
                   LogStep(e, "executed_run", "log_completed")
             [] outcome = "executed_class" ->
                   LogStep(e, "executed_class_run", "log_completed")
             [] outcome = "no_entry_point" ->
                   LogStep(e, "no_run_found", "log_completed")
             [] outcome = "raises" ->
                   /\ runner' = [runner EXCEPT ![e].pc = "sync_error"]
                   /\ UNCHANGED <<executions, stops, now, response>>

\* except of _execute_node_sync: log the error and re-raise
execute_node_sync_except(e) ==
    /\ runner[e].pc = "sync_error"
    /\ LogStep(e, "execution_error", "except")

\* the last line of the try block, then status "completed" on the object
run_standalone_async_completed(e) ==
    /\ runner[e].pc = "log_completed"
    /\ runner' = [runner EXCEPT
          ![e].execution.log = Logged(e, "completed_successfully"),
          ![e].execution.status = "completed",
          ![e].pc = "finally"]
    /\ executions' = [executions EXCEPT
          ![e].log = Logged(e, "completed_successfully")]
    /\ UNCHANGED <<stops, now, response>>

\* except of run_standalone_async that logs and leaves the status alone
run_standalone_async_except_without_status(e) ==
    /\ runner[e].pc = "except"
    /\ runner' = [runner EXCEPT
          ![e].execution.log = Logged(e, "execution_error"),
          ![e].pc = "finally"]
    /\ executions' = [executions EXCEPT ![e].log = Logged(e, "execution_error")]
    /\ UNCHANGED <<stops, now, response>>

\* except of run_standalone_async: log again, then status "failed"
run_standalone_async_except(e) ==
    /\ runner[e].pc = "except"
    /\ runner' = [runner EXCEPT
          ![e].execution.log = Logged(e, "execution_error"),
          ![e].execution.status = "failed",
          ![e].pc = "finally"]
    /\ executions' = [executions EXCEPT ![e].log = Logged(e, "execution_error")]
    /\ UNCHANGED <<stops, now, response>>

\* finally with the completion time left unset
run_standalone_async_finally_without_completed_at(e) ==
    /\ runner[e].pc = "finally"
    /\ runner' = [runner EXCEPT ![e].pc = "done"]
    /\ executions' = [executions EXCEPT ![e] = runner[e].execution]
    /\ UNCHANGED <<stops, now, response>>

\* finally: completed_at on the object, then save() of every field of the
\* object the run holds
run_standalone_async_finally(e) ==
    /\ runner[e].pc = "finally"
    /\ runner' = [runner EXCEPT ![e].execution.completed_at = now,
                                ![e].pc = "done"]
    /\ executions' = [executions EXCEPT
          ![e] = [runner[e].execution EXCEPT !.completed_at = now]]
    /\ UNCHANGED <<stops, now, response>>

\* get_object_or_404 and the status check of stop_execution
stop_execution_get(f, e) ==
    /\ stops[e].pc = "idle"
    /\ IF executions[e].status = "none" \/ executions[e].family # f
       THEN /\ response' = Response(404, "not_found")
            /\ UNCHANGED execVars
       ELSE IF executions[e].status # "running"
       THEN /\ response' = Response(400, "not_running")
            /\ UNCHANGED execVars
       ELSE /\ stops' = [stops EXCEPT ![e] = [pc |-> "save",
                                              execution |-> executions[e]]]
            /\ UNCHANGED <<executions, runner, now, response>>

\* the three assignments and save() of every field of the object read
stop_execution_save(e) ==
    /\ stops[e].pc = "save"
    /\ executions' = [executions EXCEPT
          ![e] = [stops[e].execution EXCEPT
                     !.status = "stopped",
                     !.completed_at = now,
                     !.log = Append(stops[e].execution.log, "manually_stopped")]]
    /\ stops' = [stops EXCEPT ![e] = IdleStop]
    /\ response' = Response(200, "stopped")
    /\ UNCHANGED <<runner, now>>

InitExec ==
    /\ requests = [r \in Requests |-> IdleRequest]
    /\ InitExecutions
    /\ InitSubNodeFields
    /\ InitBroadcaster
    /\ InitParameterValues
    /\ InitLinks
    /\ families = {"F1"}
    /\ \E state \in {"draft", "published"}, script \in BOOLEAN :
          /\ versions = [f \in Families |-> [n \in VersionNumbers |->
                IF f = "F1" /\ n = 1 THEN NodeVersion(state, script, "user")
                                     ELSE NoRow]]
          /\ is_deployed = [f \in Families |->
                f = "F1" /\ state = "published" /\ script]
    /\ node_parameters = [f \in Families |-> [n \in VersionNumbers |-> NoParameters]]
    /\ response = Response(0, "none")

ScriptOutcomes == {"executed", "executed_class", "no_entry_point", "raises"}

NextExec ==
    \/ Tick /\ UNCHANGED <<is_active, subnodeVars, bcastVars, dbVars, requests, paramVars, linkVars>>
    \/ \E f \in RequestFamilies, n \in VersionNumbers :
          execute(f, n) /\ UNCHANGED <<is_active, subnodeVars, bcastVars, dbVars, requests, paramVars, linkVars>>
    \/ \E e \in ExecutionIds, f \in RequestFamilies, n \in VersionNumbers :
          run_standalone_async_create(e, f, n)
             /\ UNCHANGED <<is_active, subnodeVars, bcastVars, dbVars, requests, paramVars, linkVars>>
    \/ \E e \in ExecutionIds :
          run_standalone_async_log_start(e)
             /\ UNCHANGED <<is_active, subnodeVars, bcastVars, dbVars, requests, paramVars, linkVars>>
    \/ \E e \in ExecutionIds, loads \in BOOLEAN :
          execute_node_sync_start(e, loads)
             /\ UNCHANGED <<is_active, subnodeVars, bcastVars, dbVars, requests, paramVars, linkVars>>
    \/ \E e \in ExecutionIds :
          execute_node_sync_params(e) /\ UNCHANGED <<is_active, subnodeVars, bcastVars, dbVars, requests, paramVars, linkVars>>
    \/ \E e \in ExecutionIds, module \in Modules :
          execute_node_sync_run(e, module)
             /\ UNCHANGED <<is_active, subnodeVars, bcastVars, dbVars, requests, paramVars, linkVars>>
    \/ \E e \in ExecutionIds :
          execute_node_sync_except(e) /\ UNCHANGED <<is_active, subnodeVars, bcastVars, dbVars, requests, paramVars, linkVars>>
    \/ \E e \in ExecutionIds :
          run_standalone_async_completed(e)
             /\ UNCHANGED <<is_active, subnodeVars, bcastVars, dbVars, requests, paramVars, linkVars>>
    \/ \E e \in ExecutionIds :
          run_standalone_async_except(e)
             /\ UNCHANGED <<is_active, subnodeVars, bcastVars, dbVars, requests, paramVars, linkVars>>
    \/ \E e \in ExecutionIds :
          run_standalone_async_finally(e)
             /\ UNCHANGED <<is_active, subnodeVars, bcastVars, dbVars, requests, paramVars, linkVars>>
    \/ \E f \in Families, e \in ExecutionIds :
          stop_execution_get(f, e) /\ UNCHANGED <<is_active, subnodeVars, bcastVars, dbVars, requests, paramVars, linkVars>>
    \/ \E e \in ExecutionIds :
          stop_execution_save(e) /\ UNCHANGED <<is_active, subnodeVars, bcastVars, dbVars, requests, paramVars, linkVars>>

SpecExec == InitExec /\ [][NextExec]_vars

\* The steps of a run after its row is created: the event loop and the
\* worker thread carry a started coroutine on to its return, and a script
\* that terminates lets execute_node_sync_run happen.  A stop request that
\* has read its row goes on to its save.
RunnerSteps ==
    /\ \E e \in ExecutionIds :
          \/ run_standalone_async_log_start(e)
          \/ \E loads \in BOOLEAN : execute_node_sync_start(e, loads)
          \/ execute_node_sync_params(e)
          \/ \E module \in Modules : execute_node_sync_run(e, module)
          \/ execute_node_sync_except(e)
          \/ run_standalone_async_completed(e)
          \/ run_standalone_async_except(e)
          \/ run_standalone_async_finally(e)
    /\ UNCHANGED <<is_active, subnodeVars, bcastVars, dbVars, requests, paramVars, linkVars>>

StopSaves ==
    /\ \E e \in ExecutionIds : stop_execution_save(e)
    /\ UNCHANGED <<is_active, subnodeVars, bcastVars, dbVars, requests, paramVars, linkVars>>

SpecExecFair == SpecExec /\ WF_vars(RunnerSteps) /\ WF_vars(StopSaves)

(***************************************************************************)
(* Parameter values: VersionContentViewSet.add_parameter and               *)
(* remove_parameter, SubNodeViewSet.update_parameter_values, and the two   *)
(* resolvers, the merge of NodeRunner._execute_node_sync and               *)
(* SubNode.get_parameters_for_version.  run records the last resolution    *)
(* against the rows it read: every handler that may write rows clears it.  *)
(***************************************************************************)
ParameterMaps == [Parameters -> Values \cup {Absent}]

\* the params a caller hands to the runner: nothing, or a value for one key
RequestParams ==
    {params \in ParameterMaps :
        Cardinality({p \in Parameters : params[p] # Absent}) <= 1}

\* the rows add_parameter creates for every subnode of the family: one per
\* requested parameter that has no row yet, holding the default value
WithDefaults(table, f, param_ids) ==
    [sn \in SubNodeIds |->
        IF sn \in SubNodesOf(f)
        THEN [p \in Parameters |->
                 IF p \in param_ids /\ table[sn][p] = Absent
                 THEN default_value[p] ELSE table[sn][p]]
        ELSE table[sn]]

\* the requested ids that Parameter.objects.filter(id__in=param_ids,
\* is_active=True) does not return: ids of no catalog entry, and inactive ones
add_parameter_missing_params_ignoring_is_active(param_ids) == param_ids \ Parameters
add_parameter_missing_params(param_ids) ==
    {p \in param_ids : p \notin Parameters \/ ~is_active[p]}

add_parameter(f, n, param_ids) ==
    /\ run' = NoRun
    /\ IF ~VersionExists(f, n)
       THEN /\ response' = Response(404, "not_found")
            /\ UNCHANGED <<node_parameters, subnode_parameter_values, parameter_values>>
       ELSE IF versions[f][n].state = "published"
       THEN /\ response' = Response(400, "published")
            /\ UNCHANGED <<node_parameters, subnode_parameter_values, parameter_values>>
       ELSE IF param_ids = {}
       THEN /\ response' = Response(400, "empty")
            /\ UNCHANGED <<node_parameters, subnode_parameter_values, parameter_values>>
       ELSE IF add_parameter_missing_params(param_ids) # {}
       THEN /\ response' = Response(400, "parameters_not_found")
            /\ UNCHANGED <<node_parameters, subnode_parameter_values, parameter_values>>
       ELSE /\ node_parameters' = [node_parameters EXCEPT ![f][n] =
                  [p \in Parameters |->
                      IF p \in param_ids /\ node_parameters[f][n][p] = Absent
                      THEN default_value[p] ELSE node_parameters[f][n][p]]]
            /\ parameter_values' = WithDefaults(parameter_values, f, param_ids)
            /\ subnode_parameter_values' =
                  WithDefaults(subnode_parameter_values, f, param_ids)
            /\ response' = Response(200, "added")

\* the requested ids are strings and the ids of the rows are UUID objects:
\* no requested id is found among them
IdAmong(id, rows) == FALSE

remove_parameter(f, n, param_ids) ==
    /\ run' = NoRun
    /\ IF ~VersionExists(f, n)
       THEN /\ response' = Response(404, "not_found")
            /\ UNCHANGED <<node_parameters, subnode_parameter_values, parameter_values>>
       ELSE IF versions[f][n].state = "published"
       THEN /\ response' = Response(400, "published")
            /\ UNCHANGED <<node_parameters, subnode_parameter_values, parameter_values>>
       ELSE IF param_ids = {}
       THEN /\ response' = Response(400, "empty")
            /\ UNCHANGED <<node_parameters, subnode_parameter_values, parameter_values>>
       ELSE LET existing_params ==
                    {p \in param_ids : node_parameters[f][n][p] # Absent}
                missing_params ==
                    {p \in param_ids : ~IdAmong(p, existing_params)}
            IN  IF missing_params # {}
                THEN /\ response' = Response(400, "parameters_not_found")
                     /\ UNCHANGED <<node_parameters, subnode_parameter_values,
                                    parameter_values>>
                ELSE /\ node_parameters' = [node_parameters EXCEPT ![f][n] =
                           [p \in Parameters |->
                               IF p \in param_ids THEN Absent
                               ELSE node_parameters[f][n][p]]]
                     /\ response' = Response(200, "removed")
                     /\ UNCHANGED <<subnode_parameter_values, parameter_values>>

\* one item {id, value} of the request: the id names a ParameterValue row
\* or a SubNodeParameterValue row of the subnode; target_version 0 is a
\* request without 'version'
update_parameter_values(sn, table, p, new_value, target_version) ==
    LET rows == IF table = "parameter_value" THEN parameter_values
                ELSE subnode_parameter_values
        f == node_family[sn]
    IN  /\ run' = NoRun
        /\ IF rows[sn][p] = Absent
           THEN /\ response' = Response(400, "not_found_for_subnode")
                /\ UNCHANGED <<node_parameters, subnode_parameter_values,
                               parameter_values>>
           ELSE /\ IF table = "parameter_value"
                   THEN /\ parameter_values' =
                              [parameter_values EXCEPT ![sn][p] = new_value]
                        /\ UNCHANGED subnode_parameter_values
                   ELSE /\ subnode_parameter_values' =
                              [subnode_parameter_values EXCEPT ![sn][p] = new_value]
                        /\ UNCHANGED parameter_values
                /\ IF target_version = 0
                   THEN /\ response' = Response(200, "updated")
                        /\ UNCHANGED node_parameters
                   ELSE IF ~VersionExists(f, target_version)
                   THEN /\ response' = Response(400, "target_version_not_found")
                        /\ UNCHANGED node_parameters
                   ELSE /\ node_parameters' = [node_parameters EXCEPT
                              ![f][target_version][p] = new_value]
                        /\ response' = Response(200, "updated")

\* the merge of _execute_node_sync for one call of the runner
execute_node_sync_parameters(f, n, subnode_id, params) ==
    /\ VersionExists(f, n)
    /\ run' = [resolver |-> "runner", family |-> f, version |-> n,
               subnode_id |-> subnode_id, params |-> params,
               run_params |-> RunParams(f, n, subnode_id, params),
               raised |-> FALSE]
    /\ UNCHANGED <<node_parameters, subnode_parameter_values, parameter_values,
                   response>>

\* version_params are NodeParameter rows, not Parameter rows: with any row
\* the filter parameter=param raises ValueError; with none the loop does
\* not run and the result is empty
get_parameters_for_version(sn, f, n) ==
    /\ VersionExists(f, n)
    /\ run' = [resolver |-> "subnode", family |-> f, version |-> n,
               subnode_id |-> sn,
               params |-> NoParameters, run_params |-> NoParameters,
               raised |-> \E p \in Parameters : node_parameters[f][n][p] # Absent]
    /\ UNCHANGED <<node_parameters, subnode_parameter_values, parameter_values,
                   response>>

InitParams ==
    /\ requests = [r \in Requests |-> IdleRequest]
    /\ InitExecutions
    /\ InitSubNodeFields
    /\ InitBroadcaster
    /\ InitParameterValues
    /\ subnodes = SubNodes
    /\ relationships = {}
    /\ links = {NodeVersionLink("F1", 1, "F1", 1, 0)}
    /\ families = {"F1"}
    /\ versions = [f \in Families |-> [n \in VersionNumbers |->
          IF f = "F1" /\ n = 1 THEN NodeVersion("draft", TRUE, "user") ELSE NoRow]]
    /\ is_deployed = [f \in Families |-> FALSE]
    /\ node_parameters = [f \in Families |-> [n \in VersionNumbers |-> NoParameters]]
    /\ response = Response(0, "none")

NextParams ==
    \/ \E f \in RequestFamilies, n \in VersionNumbers, param_ids \in SUBSET Parameters :
          add_parameter(f, n, param_ids)
             /\ UNCHANGED <<is_active, subnodeVars, bcastVars, families, is_deployed, versions, requests, execVars, linkVars>>
    \/ \E f \in RequestFamilies, n \in VersionNumbers, param_ids \in SUBSET Parameters :
          remove_parameter(f, n, param_ids)
             /\ UNCHANGED <<is_active, subnodeVars, bcastVars, families, is_deployed, versions, requests, execVars, linkVars>>
    \/ \E sn \in SubNodes, table \in {"parameter_value", "subnode_parameter_value"},
          p \in Parameters, new_value \in Values, target_version \in 0 .. MaxVersion :
          update_parameter_values(sn, table, p, new_value, target_version)
             /\ UNCHANGED <<is_active, subnodeVars, bcastVars, families, is_deployed, versions, requests, execVars, linkVars>>
    \/ \E f \in RequestFamilies, n \in VersionNumbers,
          subnode_id \in SubNodes \cup {NoSubNode}, params \in RequestParams :
          execute_node_sync_parameters(f, n, subnode_id, params)
             /\ UNCHANGED <<is_active, subnodeVars, bcastVars, families, is_deployed, versions, requests, execVars, linkVars>>
    \/ \E sn \in SubNodes, f \in RequestFamilies, n \in VersionNumbers :
          get_parameters_for_version(sn, f, n)
             /\ UNCHANGED <<is_active, subnodeVars, bcastVars, families, is_deployed, versions, requests, execVars, linkVars>>

SpecParams == InitParams /\ [][NextParams]_vars

(***************************************************************************)
(* Runs of two versions of one family: version 1 published, version 2 a    *)
(* draft made after it, and a subnode whose override rows add_parameter    *)
(* creates for the family when a parameter is attached to the draft.       *)
(***************************************************************************)
InitResolve ==
    /\ requests = [r \in Requests |-> IdleRequest]
    /\ InitExecutions
    /\ InitSubNodeFields
    /\ InitBroadcaster
    /\ InitParameterValues
    /\ subnodes = SubNodes
    /\ relationships = {}
    /\ links = {NodeVersionLink("F1", 1, "F1", 1, 0)}
    /\ families = {"F1"}
    /\ versions = [f \in Families |-> [n \in VersionNumbers |->
          IF f = "F1" /\ n = 1 THEN NodeVersion("published", TRUE, "user")
          ELSE IF f = "F1" /\ n = 2 THEN NodeVersion("draft", TRUE, "user")
          ELSE NoRow]]
    /\ is_deployed = [f \in Families |-> FALSE]
    /\ node_parameters = [f \in Families |-> [n \in VersionNumbers |-> NoParameters]]
    /\ response = Response(0, "none")

NextResolve ==
    \/ \E f \in RequestFamilies, n \in 1 .. 2, param_ids \in SUBSET Parameters :
          add_parameter(f, n, param_ids)
             /\ UNCHANGED <<is_active, subnodeVars, bcastVars, families, is_deployed, versions, requests, execVars, linkVars>>
    \/ \E sn \in SubNodes, table \in {"parameter_value", "subnode_parameter_value"},
          p \in Parameters, target_version \in 0 .. 1 :
          update_parameter_values(sn, table, p, "60", target_version)
             /\ UNCHANGED <<is_active, subnodeVars, bcastVars, families, is_deployed, versions, requests, execVars, linkVars>>
    \/ \E f \in RequestFamilies, n \in 1 .. 2, subnode_id \in SubNodes \cup {NoSubNode} :
          execute_node_sync_parameters(f, n, subnode_id, NoParameters)
             /\ UNCHANGED <<is_active, subnodeVars, bcastVars, families, is_deployed, versions, requests, execVars, linkVars>>

SpecResolve == InitResolve /\ [][NextResolve]_vars

(***************************************************************************)
(* The catalog next to add_parameter: ParameterViewSet.deploy and undeploy *)
(* switch is_active, and a request may name ids of no catalog entry.       *)
(***************************************************************************)
UnknownParameter == "unknown"

Parameter_deploy(p) ==
    /\ IF is_active[p]
       THEN /\ response' = Response(200, "already_deployed")
            /\ UNCHANGED is_active
       ELSE /\ is_active' = [is_active EXCEPT ![p] = TRUE]
            /\ response' = Response(200, "deployed")
    /\ UNCHANGED <<node_parameters, paramVars>>

Parameter_undeploy(p) ==
    /\ IF ~is_active[p]
       THEN /\ response' = Response(200, "already_undeployed")
            /\ UNCHANGED is_active
       ELSE /\ is_active' = [is_active EXCEPT ![p] = FALSE]
            /\ response' = Response(200, "undeployed")
    /\ UNCHANGED <<node_parameters, paramVars>>

NextAttach ==
    \/ \E f \in RequestFamilies, n \in VersionNumbers,
          param_ids \in SUBSET (Parameters \cup {UnknownParameter}) :
          add_parameter(f, n, param_ids)
             /\ UNCHANGED <<is_active, subnodeVars, bcastVars, families, is_deployed, versions, requests, execVars, linkVars>>
    \/ \E p \in Parameters :
          Parameter_deploy(p)
             /\ UNCHANGED <<subnodeVars, bcastVars, families, is_deployed, versions, requests, execVars, linkVars>>
    \/ \E p \in Parameters :
          Parameter_undeploy(p)
             /\ UNCHANGED <<subnodeVars, bcastVars, families, is_deployed, versions, requests, execVars, linkVars>>
    \/ \E sn \in SubNodes, table \in {"parameter_value", "subnode_parameter_value"},
          p \in Parameters :
          update_parameter_values(sn, table, p, "60", 0)
             /\ UNCHANGED <<is_active, subnodeVars, bcastVars, families, is_deployed, versions, requests, execVars, linkVars>>

SpecAttach == InitParams /\ [][NextAttach]_vars

(***************************************************************************)
(* Links between versions: NodeFamilyViewSet.add_subnode,                  *)
(* VersionViewSet.link_subversion and SubNodeViewSet.create, next to       *)
(* VersionViewSet.create and publish.                                      *)
(***************************************************************************)
LinkOrders == {0, 1}

\* views.py raises ValidationError without importing the name: the raise is
\* a NameError, which no handler catches
views_imports_ValidationError == FALSE

add_subnode(f, child) ==
    IF f \notin families \/ child \notin families
    THEN /\ response' = Response(404, "not_found")
         /\ UNCHANGED relationships
    ELSE IF child = f
    THEN /\ response' = IF views_imports_ValidationError
                        THEN Response(400, "own_subnode")
                        ELSE Response(500, "name_error")
         /\ UNCHANGED relationships
    ELSE /\ relationships' = relationships \cup {<<f, child>>}
         /\ response' = Response(204, "added")

\* NodeVersionLink.objects.create does not call NodeVersionLink.clean: the
\* state of the child version is never looked at
link_subversion(f, n, cf, cn, order) ==
    IF ~VersionExists(f, n) \/ ~VersionExists(cf, cn)
    THEN /\ response' = Response(404, "not_found")
         /\ UNCHANGED links
    ELSE IF cf = f
    THEN /\ response' = IF views_imports_ValidationError
                        THEN Response(400, "same_family")
                        ELSE Response(500, "name_error")
         /\ UNCHANGED links
    ELSE IF <<f, cf>> \notin relationships
    THEN /\ response' = Response(400, "not_configured_subnode")
         /\ UNCHANGED links
    ELSE IF Linked(links, <<f, n>>, <<cf, cn>>)
    THEN \* unique_together
         /\ response' = Response(500, "integrity_error")
         /\ UNCHANGED links
    ELSE /\ links' = links \cup {NodeVersionLink(f, n, cf, cn, order)}
         /\ response' = Response(204, "linked")

\* the parameters attached to any version of the family
FamilyParameters(f) ==
    {p \in Parameters : \E n \in VersionNumbers : node_parameters[f][n][p] # Absent}

\* SubNode has no created_by and no updated_by column: every
\* SubNode.objects.create(..., created_by=..., updated_by=...) of the views,
\* and serializer.save(..., created_by=..., updated_by=...), raises TypeError
\* before any row is written
SubNode_has_created_by == FALSE

\* SubNodeViewSet.create: perform_create hands created_by and updated_by to
\* serializer.save; the TypeError is caught by the handler's except and
\* answered 400.  With the columns, SubNode.save and its links, then a
\* ParameterValue and a SubNodeParameterValue row with the default for every
\* parameter of the family
SubNode_create(sn) ==
    LET f == node_family[sn]
        defaults == [p \in Parameters |->
                        IF p \in FamilyParameters(f) THEN default_value[p] ELSE Absent]
    IN  IF f \notin families \/ sn \in subnodes
        THEN /\ response' = Response(400, "invalid")
             /\ UNCHANGED <<links, subnodes, subnode_parameter_values, parameter_values>>
        ELSE IF ~SubNode_has_created_by
        THEN /\ response' = Response(400, "type_error")
             /\ UNCHANGED <<links, subnodes, subnode_parameter_values, parameter_values>>
        ELSE /\ subnodes' = subnodes \cup {sn}
             /\ links' = links \cup SubNode_save_links(f)
             /\ parameter_values' = [parameter_values EXCEPT ![sn] = defaults]
             /\ subnode_parameter_values' =
                   [subnode_parameter_values EXCEPT ![sn] = defaults]
             /\ response' = Response(201, "created")

\* the add form of the admin site, where SubNode is registered: SubNode.save
\* of a new row, with the links it creates
SubNode_admin_add(sn) ==
    LET f == node_family[sn]
    IN  /\ f \in families
        /\ sn \notin subnodes
        /\ subnodes' = subnodes \cup {sn}
        /\ links' = links \cup SubNode_save_links(f)
        /\ UNCHANGED <<subnode_parameter_values, parameter_values, response>>

InitLinked ==
    /\ requests = [r \in Requests |-> IdleRequest]
    /\ InitExecutions
    /\ InitSubNodeFields
    /\ InitBroadcaster
    /\ InitParameterValues
    /\ InitLinks
    /\ families = Families
    /\ \E state \in {"draft", "published"} :
          versions = [f \in Families |-> [n \in VersionNumbers |->
              IF n # 1 THEN NoRow
              ELSE IF f = "F1" THEN NodeVersion("published", TRUE, "user")
              ELSE NodeVersion(state, TRUE, "user")]]
    /\ is_deployed = [f \in Families |-> versions[f][1].state = "published"]
    /\ \E p \in Parameters, v \in Values :
          node_parameters = [f \in Families |-> [n \in VersionNumbers |->
              IF f = "F1" /\ n = 1 THEN [NoParameters EXCEPT ![p] = v]
              ELSE NoParameters]]
    /\ response = Response(0, "none")

NextLinked ==
    \/ \E f \in RequestFamilies, child \in Families :
          add_subnode(f, child)
             /\ UNCHANGED <<is_active, subnodeVars, bcastVars, dbVars, requests, execVars, paramVars, links, subnodes>>
    \/ \E f \in RequestFamilies, n \in VersionNumbers, cf \in Families,
          cn \in VersionNumbers, order \in LinkOrders :
          link_subversion(f, n, cf, cn, order)
             /\ UNCHANGED <<is_active, subnodeVars, bcastVars, dbVars, requests, execVars, paramVars, relationships,
                            subnodes>>
    \/ \E sn \in SubNodes :
          SubNode_create(sn)
             /\ UNCHANGED <<is_active, subnodeVars, bcastVars, dbVars, requests, execVars, run, relationships>>
    \/ \E sn \in SubNodes :
          SubNode_admin_add(sn)
             /\ UNCHANGED <<is_active, subnodeVars, bcastVars, dbVars, requests, execVars, run, relationships>>
    \/ \E f \in RequestFamilies, source \in 0 .. MaxVersion :
          Version_create(f, source)
             /\ UNCHANGED <<is_active, subnodeVars, bcastVars, requests, execVars, paramVars, relationships, subnodes>>
    \/ \E f \in RequestFamilies, n \in VersionNumbers :
          publish(f, n) /\ UNCHANGED <<is_active, subnodeVars, bcastVars, requests, execVars, paramVars, linkVars>>

SpecLinked == InitLinked /\ [][NextLinked]_vars


(***************************************************************************)
(* The log broadcaster: WebSocketLogBroadcaster with its one drain task,    *)
(* enqueue calls and observers that come and go (LogConsumer.connect and    *)
(* disconnect).  asyncio runs one coroutine at a time: a step is the code   *)
(* between two awaits that suspend.  The lock is held from the start of a   *)
(* broadcast to its end, which is while drain.pc = "sending".               *)
(***************************************************************************)
MaxMessages == 3

\* start without its test of _running: every call makes a new task
start_without_running_check ==
    /\ _running' = TRUE
    /\ drain' = [IdleDrain EXCEPT !.pc = "check"]
    /\ UNCHANGED <<connections, message_queue, received, enqueued>>

\* start, called from NodeConfig.ready: the second call does nothing
start ==
    /\ IF _running
       THEN UNCHANGED <<_running, drain>>
       ELSE /\ _running' = TRUE
            /\ drain' = [IdleDrain EXCEPT !.pc = "check"]
    /\ UNCHANGED <<connections, message_queue, received, enqueued>>

\* enqueue: deque.append; the n-th message enqueued is named n
enqueue ==
    /\ enqueued < MaxMessages
    /\ enqueued' = enqueued + 1
    /\ message_queue' = Append(message_queue, enqueued + 1)
    /\ UNCHANGED <<connections, _running, drain, received>>

\* register and unregister wait for the lock
register(ws) ==
    /\ drain.pc # "sending"
    /\ connections' = connections \cup {ws}
    /\ UNCHANGED <<message_queue, _running, drain, received, enqueued>>

unregister(ws) ==
    /\ drain.pc # "sending"
    /\ connections' = connections \ {ws}
    /\ UNCHANGED <<message_queue, _running, drain, received, enqueued>>

\* the loop taking the newest message of the queue instead of the oldest
process_queue_pop_right ==
    /\ drain.pc = "check"
    /\ _running
    /\ IF message_queue = <<>>
       THEN /\ drain' = [drain EXCEPT !.pc = "sleep"]
            /\ UNCHANGED message_queue
       ELSE /\ message_queue' = SubSeq(message_queue, 1, Len(message_queue) - 1)
            /\ drain' = IF connections = {}
                        THEN [drain EXCEPT !.pc = "sleep"]
                        ELSE [pc |-> "sending",
                              message |-> message_queue[Len(message_queue)],
                              todo |-> connections, dead |-> {}]
    /\ UNCHANGED <<connections, _running, received, enqueued>>

\* the loop leaving a message on the queue while no observer is registered
process_queue_keeps_undelivered ==
    /\ drain.pc = "check"
    /\ _running
    /\ IF message_queue = <<>> \/ connections = {}
       THEN /\ drain' = [drain EXCEPT !.pc = "sleep"]
            /\ UNCHANGED message_queue
       ELSE /\ message_queue' = Tail(message_queue)
            /\ drain' = [pc |-> "sending", message |-> Head(message_queue),
                         todo |-> connections, dead |-> {}]
    /\ UNCHANGED <<connections, _running, received, enqueued>>

\* the loop reading the oldest message without taking it off the queue
process_queue_without_popleft ==
    /\ drain.pc = "check"
    /\ _running
    /\ IF message_queue = <<>>
       THEN drain' = [drain EXCEPT !.pc = "sleep"]
       ELSE drain' = IF connections = {}
                     THEN [drain EXCEPT !.pc = "sleep"]
                     ELSE [pc |-> "sending", message |-> Head(message_queue),
                           todo |-> connections, dead |-> {}]
    /\ UNCHANGED <<message_queue, connections, _running, received, enqueued>>

\* one turn of the loop of _process_queue up to the first send: popleft,
\* then broadcast takes the lock, which is free, and returns at once when
\* no observer is registered
process_queue ==
    /\ drain.pc = "check"
    /\ _running
    /\ IF message_queue = <<>>
       THEN /\ drain' = [drain EXCEPT !.pc = "sleep"]
            /\ UNCHANGED message_queue
       ELSE /\ message_queue' = Tail(message_queue)
            /\ drain' = IF connections = {}
                        THEN [drain EXCEPT !.pc = "sleep"]
                        ELSE [pc |-> "sending", message |-> Head(message_queue),
                              todo |-> connections, dead |-> {}]
    /\ UNCHANGED <<connections, _running, received, enqueued>>

\* the loop of broadcast without its try and except: a failed send ends the
\* broadcast and the task of _process_queue with it
broadcast_send_without_except(ws, ok) ==
    /\ drain.pc = "sending"
    /\ ws \in drain.todo
    /\ IF ok
       THEN /\ received' = [received EXCEPT ![ws] = Append(@, drain.message)]
            /\ drain' = [drain EXCEPT !.todo = @ \ {ws}]
       ELSE /\ drain' = [pc |-> "crashed", message |-> drain.message,
                         todo |-> {}, dead |-> {}]
            /\ UNCHANGED received
    /\ UNCHANGED <<connections, message_queue, _running, enqueued>>

\* one pass of the for loop of broadcast: send_json to one of the
\* connections, in the order the set yields them; a send that raises puts
\* the connection on the dead list
broadcast_send(ws, ok) ==
    /\ drain.pc = "sending"
    /\ ws \in drain.todo
    /\ IF ok
       THEN /\ received' = [received EXCEPT ![ws] = Append(@, drain.message)]
            /\ drain' = [drain EXCEPT !.todo = @ \ {ws}]
       ELSE /\ drain' = [drain EXCEPT !.todo = @ \ {ws}, !.dead = @ \cup {ws}]
            /\ UNCHANGED received
    /\ UNCHANGED <<connections, message_queue, _running, enqueued>>

\* the end of broadcast: the dead connections are discarded and the lock is
\* released; the loop goes to sleep
broadcast_discard ==
    /\ drain.pc = "sending"
    /\ drain.todo = {}
    /\ connections' = connections \ drain.dead
    /\ drain' = [drain EXCEPT !.pc = "sleep", !.dead = {}]
    /\ UNCHANGED <<message_queue, _running, received, enqueued>>

\* asyncio.sleep(0.1) returns
process_queue_sleep ==
    /\ drain.pc = "sleep"
    /\ drain' = [drain EXCEPT !.pc = "check"]
    /\ UNCHANGED <<connections, message_queue, _running, received, enqueued>>

NextBroadcast ==
    \/ start /\ UNCHANGED <<is_active, dbVars, response, requests, execVars, paramVars, linkVars, subnodeVars>>
    \/ enqueue /\ UNCHANGED <<is_active, dbVars, response, requests, execVars, paramVars, linkVars, subnodeVars>>
    \/ \E ws \in Observers :
          register(ws) /\ UNCHANGED <<is_active, dbVars, response, requests, execVars, paramVars, linkVars, subnodeVars>>
    \/ \E ws \in Observers :
          unregister(ws) /\ UNCHANGED <<is_active, dbVars, response, requests, execVars, paramVars, linkVars, subnodeVars>>
    \/ process_queue /\ UNCHANGED <<is_active, dbVars, response, requests, execVars, paramVars, linkVars, subnodeVars>>
    \/ \E ws \in Observers, ok \in BOOLEAN :
          broadcast_send(ws, ok) /\ UNCHANGED <<is_active, dbVars, response, requests, execVars, paramVars, linkVars, subnodeVars>>
    \/ broadcast_discard /\ UNCHANGED <<is_active, dbVars, response, requests, execVars, paramVars, linkVars, subnodeVars>>
    \/ process_queue_sleep /\ UNCHANGED <<is_active, dbVars, response, requests, execVars, paramVars, linkVars, subnodeVars>>

SpecBroadcast == Init /\ [][NextBroadcast]_vars

\* the steps of the task of _process_queue; the event loop resumes the task
\* whenever its sleep or its send has returned, and a send returns or raises
DrainSteps ==
    \/ process_queue /\ UNCHANGED <<is_active, dbVars, response, requests, execVars, paramVars, linkVars, subnodeVars>>
    \/ \E ws \in Observers, ok \in BOOLEAN :
          broadcast_send(ws, ok) /\ UNCHANGED <<is_active, dbVars, response, requests, execVars, paramVars, linkVars, subnodeVars>>
    \/ broadcast_discard /\ UNCHANGED <<is_active, dbVars, response, requests, execVars, paramVars, linkVars, subnodeVars>>
    \/ process_queue_sleep /\ UNCHANGED <<is_active, dbVars, response, requests, execVars, paramVars, linkVars, subnodeVars>>

SpecBroadcastFair == SpecBroadcast /\ WF_vars(DrainSteps)

(***************************************************************************)
(* SubNode versions: the handlers of SubNodeViewSet on the rows of one      *)
(* lineage, SubNode.create_new_version, and two activate_version requests   *)
(* whose updates interleave (specification SpecSubNode); the edits of a     *)
(* version and of its parameter values next to one request that deploys     *)
(* and undeploys (specification SpecSubNodeEdit).                           *)
(***************************************************************************)
MaxSubNodeVersion == 2

\* _get_original: subnode.original or subnode
_get_original(sn) ==
    IF subnode_fields[sn].original # NoOriginal
    THEN subnode_fields[sn].original ELSE sn

\* SubNode.objects.filter(Q(original=original_ref) | Q(id=original_ref.id)),
\* also SubNode.get_all_versions
get_all_versions(rows, fields, original_ref) ==
    {x \in rows : fields[x].original = original_ref \/ x = original_ref}

\* _max_version: Max('version') of the lineage, or 1
_max_version(original_ref) ==
    LET numbers == {subnode_fields[x].version :
                       x \in get_all_versions(subnodes, subnode_fields, original_ref)}
    IN  IF numbers = {} THEN 1 ELSE MaxOf(numbers)

\* the rows of the lineage of sn that carry the version number
VersionRows(sn, version_number) ==
    {x \in get_all_versions(subnodes, subnode_fields, _get_original(sn)) :
        subnode_fields[x].version = version_number}

\* SubNodeViewSet.update: name and description of a version that is not
\* deployed
SubNode_update(sn, description) ==
    /\ IF sn \notin subnodes
       THEN /\ response' = Response(404, "not_found")
            /\ UNCHANGED subnode_fields
       ELSE IF subnode_fields[sn].is_deployed
       THEN /\ response' = Response(400, "deployed")
            /\ UNCHANGED subnode_fields
       ELSE /\ subnode_fields' = [subnode_fields EXCEPT ![sn].description = description]
            /\ response' = Response(200, "updated")
    /\ UNCHANGED <<subnodes, activations, links, paramVars, node_parameters>>

\* activate_version up to its first update: get_object, then is_deployed =
\* False on every row of the lineage
activate_version_clear(r, sn, version_number) ==
    /\ activations[r].pc = "idle"
    /\ IF sn \notin subnodes
       THEN /\ response' = Response(404, "not_found")
            /\ UNCHANGED <<subnode_fields, activations>>
       ELSE LET original_ref == _get_original(sn)
                lineage == get_all_versions(subnodes, subnode_fields, original_ref)
            IN  /\ subnode_fields' = [x \in SubNodeIds |->
                      IF x \in lineage
                      THEN [subnode_fields[x] EXCEPT !.is_deployed = FALSE]
                      ELSE subnode_fields[x]]
                /\ activations' = [activations EXCEPT ![r] =
                      [pc |-> "set", original_ref |-> original_ref,
                       version_number |-> version_number, updated |-> 0]]
                /\ UNCHANGED response
    /\ UNCHANGED <<subnodes, links, paramVars, node_parameters>>

\* the second update of activate_version, is_deployed = True on the rows of
\* the lineage with the version number, and the answer
activate_version_set(r) ==
    /\ activations[r].pc = "set"
    /\ LET rows == {x \in get_all_versions(subnodes, subnode_fields,
                                           activations[r].original_ref) :
                       subnode_fields[x].version = activations[r].version_number}
       IN  /\ subnode_fields' = [x \in SubNodeIds |->
                 IF x \in rows
                 THEN [subnode_fields[x] EXCEPT !.is_deployed = TRUE]
                 ELSE subnode_fields[x]]
           /\ response' = IF rows = {} THEN Response(404, "version_not_found")
                          ELSE Response(200, "activated")
    /\ activations' = [activations EXCEPT ![r] = IdleActivation]
    /\ UNCHANGED <<subnodes, links, paramVars, node_parameters>>

undeploy_version(sn, version_number) ==
    /\ IF sn \notin subnodes
       THEN /\ response' = Response(404, "not_found")
            /\ UNCHANGED subnode_fields
       ELSE IF VersionRows(sn, version_number) = {}
       THEN /\ response' = Response(404, "version_not_found")
            /\ UNCHANGED subnode_fields
       ELSE LET version_obj == CHOOSE x \in VersionRows(sn, version_number) : TRUE
            IN  IF ~subnode_fields[version_obj].is_deployed
                THEN /\ response' = Response(400, "already_undeployed")
                     /\ UNCHANGED subnode_fields
                ELSE /\ subnode_fields' =
                           [subnode_fields EXCEPT ![version_obj].is_deployed = FALSE]
                     /\ response' = Response(200, "undeployed")
    /\ UNCHANGED <<subnodes, activations, links, paramVars, node_parameters>>

\* delete_version: the row goes with its parameter rows (CASCADE), and the
\* rows that named it as their original keep none (SET_NULL)
delete_version(sn, version_number) ==
    /\ IF sn \notin subnodes
       THEN /\ response' = Response(404, "not_found")
            /\ UNCHANGED <<subnodes, subnode_fields, subnode_parameter_values,
                           parameter_values>>
       ELSE IF VersionRows(sn, version_number) = {}
       THEN /\ response' = Response(404, "version_not_found")
            /\ UNCHANGED <<subnodes, subnode_fields, subnode_parameter_values,
                           parameter_values>>
       ELSE LET version_obj == CHOOSE x \in VersionRows(sn, version_number) : TRUE
            IN  IF subnode_fields[version_obj].is_deployed
                THEN /\ response' = Response(400, "deployed")
                     /\ UNCHANGED <<subnodes, subnode_fields,
                                    subnode_parameter_values, parameter_values>>
                ELSE /\ subnodes' = subnodes \ {version_obj}
                     /\ subnode_fields' = [x \in SubNodeIds |->
                           IF x = version_obj THEN SubNode(NoOriginal, 1, FALSE, "d0")
                           ELSE IF subnode_fields[x].original = version_obj
                           THEN [subnode_fields[x] EXCEPT !.original = NoOriginal]
                           ELSE subnode_fields[x]]
                     /\ parameter_values' =
                           [parameter_values EXCEPT ![version_obj] = NoParameters]
                     /\ subnode_parameter_values' =
                           [subnode_parameter_values EXCEPT ![version_obj] = NoParameters]
                     /\ response' = Response(200, "deleted")
    /\ run' = NoRun
    /\ UNCHANGED <<activations, links, node_parameters>>

\* create_editable_version: after its checks the handler calls
\* SubNode.objects.create with created_by and updated_by, which raises
\* TypeError; nothing is written.  With the columns, the new row of the
\* lineage and _copy_parameters, which copies the ParameterValue rows
create_editable_version(sn, version_comment) ==
    /\ IF sn \notin subnodes
       THEN /\ response' = Response(404, "not_found")
            /\ UNCHANGED <<subnodes, subnode_fields, parameter_values, links>>
       ELSE IF ~subnode_fields[sn].is_deployed
       THEN /\ response' = Response(400, "already_editable")
            /\ UNCHANGED <<subnodes, subnode_fields, parameter_values, links>>
       ELSE IF ~version_comment
       THEN /\ response' = Response(400, "version_comment_required")
            /\ UNCHANGED <<subnodes, subnode_fields, parameter_values, links>>
       ELSE IF ~SubNode_has_created_by
       THEN /\ response' = Response(500, "type_error")
            /\ UNCHANGED <<subnodes, subnode_fields, parameter_values, links>>
       ELSE LET new_subnode == CHOOSE x \in SubNodeIds \ subnodes : TRUE
                original_ref == _get_original(sn)
            IN  /\ subnodes' = subnodes \cup {new_subnode}
                /\ subnode_fields' = [subnode_fields EXCEPT ![new_subnode] =
                      SubNode(original_ref, _max_version(original_ref) + 1, FALSE,
                              subnode_fields[sn].description)]
                /\ links' = links \cup SubNode_save_links(node_family[sn])
                /\ parameter_values' =
                      [parameter_values EXCEPT ![new_subnode] = parameter_values[sn]]
                /\ response' = Response(201, "created")
    /\ run' = NoRun
    /\ UNCHANGED <<activations, subnode_parameter_values, node_parameters>>

\* SubNode.create_new_version: the new row of the lineage, saved with the
\* links SubNode.save creates, then _copy_parameter_values, which copies
\* the rows of the related name parameter_values, the ParameterValue rows
create_new_version(sn) ==
    /\ sn \in subnodes
    /\ SubNodeIds \ subnodes # {}
    /\ LET new_version == CHOOSE x \in SubNodeIds \ subnodes : TRUE
           original_ref == _get_original(sn)
           max_version == _max_version(original_ref)
       IN  /\ max_version < MaxSubNodeVersion
           /\ subnodes' = subnodes \cup {new_version}
           /\ subnode_fields' = [subnode_fields EXCEPT ![new_version] =
                 SubNode(original_ref, max_version + 1, FALSE,
                         subnode_fields[sn].description)]
           /\ links' = links \cup SubNode_save_links(node_family[sn])
           /\ parameter_values' =
                 [parameter_values EXCEPT ![new_version] = parameter_values[sn]]
    /\ run' = NoRun
    /\ UNCHANGED <<activations, subnode_parameter_values, node_parameters, response>>

\* import_subnode with a JSON body: the first SubNode.objects.create of the
\* atomic block raises TypeError (created_by), the handler's except answers
\* 500 and nothing is written
import_subnode(f) ==
    /\ ~SubNode_has_created_by
    /\ response' = IF f \in families THEN Response(500, "import_failed")
                   ELSE Response(500, "import_failed_not_found")
    /\ UNCHANGED <<subnodes, subnode_fields, activations, links, paramVars,
                   node_parameters>>

\* clone_all_versions and clone_specific_version: after the lookup of the
\* source, SubNode.objects.create raises TypeError (created_by) inside the
\* atomic block; the handler's except answers 500 and nothing is written
clone_specific_version(sn, version_number) ==
    /\ ~SubNode_has_created_by
    /\ response' = IF sn \notin subnodes THEN Response(404, "not_found")
                   ELSE IF VersionRows(sn, version_number) = {}
                   THEN Response(404, "version_not_found")
                   ELSE Response(500, "clone_failed")
    /\ UNCHANGED <<subnodes, subnode_fields, activations, links, paramVars,
                   node_parameters>>

\* One lineage of family F1, whose version 1 is published with one
\* NodeParameter: the original sn1, with a ParameterValue row and a
\* SubNodeParameterValue row, alone or with a second version sn2 that
\* create_new_version made from it; at most one of them deployed
InitSubNode ==
    /\ requests = [r \in Requests |-> IdleRequest]
    /\ InitExecutions
    /\ InitBroadcaster
    /\ activations = [r \in Requests |-> IdleActivation]
    /\ is_active = [p \in Parameters |-> TRUE]
    /\ families = {"F1"}
    /\ versions = [f \in Families |-> [n \in VersionNumbers |->
          IF f = "F1" /\ n = 1 THEN NodeVersion("published", TRUE, "user") ELSE NoRow]]
    /\ is_deployed = [f \in Families |-> f = "F1"]
    /\ node_parameters = [f \in Families |-> [n \in VersionNumbers |->
          IF f = "F1" /\ n = 1 THEN [NoParameters EXCEPT !["timeout"] = "30"]
          ELSE NoParameters]]
    /\ relationships = {}
    /\ links = {NodeVersionLink("F1", 1, "F1", 1, 0)}
    /\ run = NoRun
    /\ response = Response(0, "none")
    /\ \E rows \in {{"sn1"}, {"sn1", "sn2"}}, deployed \in SubNodeIds \cup {NoSubNode} :
          /\ deployed \in rows \cup {NoSubNode}
          /\ subnodes = rows
          /\ subnode_fields = [x \in SubNodeIds |->
                IF x = "sn1" THEN SubNode(NoOriginal, 1, deployed = "sn1", "d0")
                ELSE IF x = "sn2" /\ x \in rows
                THEN SubNode("sn1", 2, deployed = "sn2", "d0")
                ELSE SubNode(NoOriginal, 1, FALSE, "d0")]
          /\ parameter_values = [x \in SubNodeIds |->
                IF x \in rows THEN [NoParameters EXCEPT !["timeout"] = "30"]
                ELSE NoParameters]
          /\ subnode_parameter_values = [x \in SubNodeIds |->
                IF x = "sn1" THEN [NoParameters EXCEPT !["timeout"] = "90"]
                ELSE NoParameters]

NextSubNode ==
    \/ \E r \in Requests, sn \in SubNodeIds, version_number \in 1 .. MaxSubNodeVersion :
          activate_version_clear(r, sn, version_number)
             /\ UNCHANGED <<is_active, bcastVars, families, is_deployed, versions, requests, execVars, relationships>>
    \/ \E r \in Requests :
          activate_version_set(r)
             /\ UNCHANGED <<is_active, bcastVars, families, is_deployed, versions, requests, execVars, relationships>>
    \/ \E sn \in SubNodeIds, version_number \in 1 .. MaxSubNodeVersion :
          undeploy_version(sn, version_number)
             /\ UNCHANGED <<is_active, bcastVars, families, is_deployed, versions, requests, execVars, relationships>>
    \/ \E sn \in SubNodeIds, version_number \in 1 .. MaxSubNodeVersion :
          delete_version(sn, version_number)
             /\ UNCHANGED <<is_active, bcastVars, families, is_deployed, versions, requests, execVars, relationships>>
    \/ \E sn \in SubNodeIds, version_comment \in BOOLEAN :
          create_editable_version(sn, version_comment)
             /\ UNCHANGED <<is_active, bcastVars, families, is_deployed, versions, requests, execVars, relationships>>
    \/ \E sn \in SubNodeIds :
          create_new_version(sn)
             /\ UNCHANGED <<is_active, bcastVars, families, is_deployed, versions, requests, execVars, relationships>>
    \/ \E f \in Families :
          import_subnode(f)
             /\ UNCHANGED <<is_active, bcastVars, families, is_deployed, versions, requests, execVars, relationships>>
    \/ \E sn \in SubNodeIds, version_number \in 1 .. MaxSubNodeVersion :
          clone_specific_version(sn, version_number)
             /\ UNCHANGED <<is_active, bcastVars, families, is_deployed, versions, requests, execVars, relationships>>

SpecSubNode == InitSubNode /\ [][NextSubNode]_vars

\* one request at a time: the edits, and the deployment they meet
NextSubNodeEdit ==
    \/ \E sn \in SubNodeIds, description \in Descriptions :
          SubNode_update(sn, description)
             /\ UNCHANGED <<is_active, bcastVars, families, is_deployed, versions, requests, execVars, relationships>>
    \/ \E sn \in SubNodeIds, table \in {"parameter_value", "subnode_parameter_value"},
          new_value \in {"60"}, target_version \in 0 .. 1 :
          update_parameter_values(sn, table, "timeout", new_value, target_version)
             /\ UNCHANGED <<is_active, bcastVars, subnodeVars, families, is_deployed, versions, requests, execVars, linkVars>>
    \/ \E sn \in SubNodeIds, version_number \in 1 .. MaxSubNodeVersion :
          activate_version_clear("r1", sn, version_number)
             /\ UNCHANGED <<is_active, bcastVars, families, is_deployed, versions, requests, execVars, relationships>>
    \/ activate_version_set("r1")
             /\ UNCHANGED <<is_active, bcastVars, families, is_deployed, versions, requests, execVars, relationships>>
    \/ \E sn \in SubNodeIds, version_number \in 1 .. MaxSubNodeVersion :
          undeploy_version(sn, version_number)
             /\ UNCHANGED <<is_active, bcastVars, families, is_deployed, versions, requests, execVars, relationships>>

SpecSubNodeEdit == InitSubNode /\ [][NextSubNodeEdit]_vars

(***************************************************************************)
(* Claims on the version lifecycle (specification Spec).                   *)
(***************************************************************************)

\* C1: in every reachable state each NodeFamily has at most one NodeVersion
\* in state published.
C1_AtMostOnePublished ==
    \A f \in Families : Cardinality(PublishedOf(f)) <= 1

\* A version's state changes from a to b in this step.
StateChange(f, n, a, b) ==
    versions[f][n].state = a /\ versions'[f][n].state = b

\* Some other version of the family becomes published in this step.
PublishesAnother(f, n) ==
    \E m \in VersionNumbers :
        /\ m # n
        /\ versions[f][m].state # "published"
        /\ versions'[f][m].state = "published"

C4_DeployedIffPublished ==
    \A f \in families : is_deployed[f] <=> has_deployed_versions(f)

\* C9: publish (and deploy, its twin) on a version that is already
\* published changes no state (no version, no changelog, no family flag) and
\* answers 200 'already published' ('already deployed'), not an error.
C9_PublishIdempotent ==
    [][\A f \in Families, n \in VersionNumbers :
          (/\ VersionExists(f, n)
           /\ versions[f][n].state = "published"
           /\ (publish(f, n) \/ deploy(f, n))) =>
              /\ UNCHANGED dbVars
              /\ response' \in {Response(200, "already_published"),
                                Response(200, "already_deployed")}
      ]_vars

\* A publish request has been answered 'already published' while a version
\* of the family is published.
C9_Witness ==
    /\ response = Response(200, "already_published")
    /\ \E f \in Families : PublishedOf(f) # {}

\* C10: publish (and deploy) on a non-published version without a script fails and
\* leaves every version's state and the family's is_deployed unchanged.
C10_PublishWithoutScriptFails ==
    [][\A f \in Families, n \in VersionNumbers :
          (/\ VersionExists(f, n)
           /\ versions[f][n].state # "published"
           /\ ~versions[f][n].script
           /\ (publish(f, n) \/ deploy(f, n))) =>
              /\ response'.status = 400
              /\ versions' = versions
              /\ is_deployed' = is_deployed
      ]_vars

\* A publish was refused for want of a script while another version of the
\* family is published and stays so.
C10_Witness ==
    /\ response = Response(400, "no_script")
    /\ \E f \in Families : \E n, m \in VersionNumbers :
          /\ versions[f][n].state \in {"draft", "archived"}
          /\ ~versions[f][n].script
          /\ versions[f][m].state = "published"

(***************************************************************************)
(* Claims on concurrent publish (specification SpecPublish).               *)
(***************************************************************************)

\* C2: when two publish or deploy requests for two different non-published
\* versions of one family interleave at their reads and writes, the family
\* does not end with both versions published.
C2_ConcurrentPublishOnePublished ==
    (\A r \in Requests : requests[r].pc = "done") =>
        \A f \in Families : Cardinality(PublishedOf(f)) <= 1

(***************************************************************************)
(* C5: the status of a NodeExecution changes only queued -> running,       *)
(* running -> completed, running -> failed and running -> stopped; a       *)
(* completed, failed or stopped execution never changes status again, also *)
(* when a stop request interleaves with the run of the same execution.     *)
(***************************************************************************)
LegalStatusChanges ==
    {<<"queued", "running">>, <<"running", "completed">>,
     <<"running", "failed">>, <<"running", "stopped">>}

C5_OnlyLegalStatusChanges ==
    [][\A e \in ExecutionIds :
          (/\ executions[e].status # "none"
           /\ executions'[e].status # executions[e].status)
          => <<executions[e].status, executions'[e].status>> \in LegalStatusChanges
      ]_vars

(***************************************************************************)
(* C6: every NodeExecution whose status is completed, failed or stopped    *)
(* has completed_at set, and completed_at is not earlier than started_at.  *)
(***************************************************************************)
TerminalStatuses == {"completed", "failed", "stopped"}

Overrides(subnode_id) ==
    IF subnode_id = NoSubNode THEN NoParameters
    ELSE subnode_parameter_values[subnode_id]

C7_OverridePriority ==
    (run.resolver = "runner" /\ run.params = NoParameters)
    => \A k \in Parameters :
          run.run_params[k] =
             IF Overrides(run.subnode_id)[k] # Absent
             THEN Overrides(run.subnode_id)[k]
             ELSE IF node_parameters[run.family][run.version][k] # Absent
             THEN node_parameters[run.family][run.version][k]
             ELSE default_value[k]

(***************************************************************************)
(* C8: the parameters handed to the script are the resolved parameters     *)
(* overlaid with the caller's params: a key the caller supplies has the    *)
(* caller's value whatever the version and the subnode hold for it, and    *)
(* every other key has the value the version and the subnode resolve to.   *)
(***************************************************************************)
C8_RequestParamsWin ==
    run.resolver = "runner"
    => \A k \in Parameters :
          run.run_params[k] =
             IF run.params[k] # Absent THEN run.params[k]
             ELSE IF Overrides(run.subnode_id)[k] # Absent
             THEN Overrides(run.subnode_id)[k]
             ELSE node_parameters[run.family][run.version][k]

\* a run with a subnode in which the caller's value replaced a different
\* subnode value and a different version value, and another key kept the
\* subnode's value
C8_Witness ==
    /\ run.resolver = "runner"
    /\ run.subnode_id \in SubNodes
    /\ \E k \in Parameters :
          /\ run.params[k] # Absent
          /\ node_parameters["F1"][1][k] \notin {Absent, run.params[k]}
          /\ subnode_parameter_values[run.subnode_id][k] \notin {Absent, run.params[k]}
          /\ run.run_params[k] = run.params[k]
    /\ \E k \in Parameters :
          /\ run.params[k] = Absent
          /\ subnode_parameter_values[run.subnode_id][k] # Absent
          /\ run.run_params[k] = subnode_parameter_values[run.subnode_id][k]

(***************************************************************************)
(* C11: in every reachable state every NodeVersion in state published has  *)
(* a script, whichever operation (publish, deploy, rollback, clone,        *)
(* import) made it published.                                              *)
(***************************************************************************)
C11_PublishedHasScript ==
    \A f \in Families, n \in VersionNumbers :
        versions[f][n].state = "published" => versions[f][n].script

(***************************************************************************)
(* C12: rollback onto an archived target ends with the target published    *)
(* with a provenance note in its changelog and every other version that    *)
(* was published archived; rollback onto a draft target is rejected and    *)
(* changes no state.                                                       *)
(***************************************************************************)
C12_RollbackPublishesTarget ==
    [][\A f \in Families, n \in VersionNumbers :
          /\ (versions[f][n].state = "archived" /\ rollback(f, n)) =>
                /\ versions'[f][n].state = "published"
                /\ versions'[f][n].changelog = "rollback"
                /\ \A m \in VersionNumbers \ {n} :
                      versions[f][m].state = "published"
                      => versions'[f][m].state = "archived"
          /\ (versions[f][n].state = "draft" /\ rollback(f, n)) =>
                /\ response'.status >= 400
                /\ UNCHANGED dbVars
      ]_vars

(***************************************************************************)
(* C13 as claimed: deleteVersion succeeds only on a draft version that is  *)
(* not the only version of its family; on a published version, on the      *)
(* family's only version and on any other non-draft version it fails and   *)
(* deletes nothing.                                                        *)
(***************************************************************************)
C13_OnlyDraftDeletable ==
    [][\A f \in Families, n \in VersionNumbers :
          (VersionExists(f, n) /\ Version_destroy(f, n)) =>
              IF versions[f][n].state = "draft" /\ Cardinality(VersionsOf(f)) > 1
              THEN TRUE
              ELSE /\ response'.status >= 400
                   /\ UNCHANGED dbVars
      ]_vars

(***************************************************************************)
(* C13 amended: deleteVersion fails and deletes nothing on a published     *)
(* version and on the family's only version; on any other version, draft   *)
(* or archived, with no execution recorded against it, it deletes exactly  *)
(* that version and its parameter rows.                                    *)
(***************************************************************************)
C13_NotPublishedNotOnlyDeletable ==
    [][\A f \in Families, n \in VersionNumbers :
          (VersionExists(f, n) /\ Version_destroy(f, n)) =>
              IF versions[f][n].state = "published" \/ Cardinality(VersionsOf(f)) = 1
              THEN /\ response'.status = 400
                   /\ UNCHANGED dbVars
              ELSE /\ ~HasExecutions(f, n)
                   => /\ response'.status = 204
                      /\ versions' = [versions EXCEPT ![f][n] = NoRow]
                      /\ node_parameters'[f][n] = NoParameters
                      /\ UNCHANGED <<families, is_deployed>>
      ]_vars

\* the delete of a family's only version, a draft, has just been refused
C13_Witness ==
    /\ response = Response(400, "only_version")
    /\ \E f \in families : \E n \in VersionNumbers :
          /\ VersionsOf(f) = {n}
          /\ versions[f][n].state = "draft"

LinkTargets(ls, f, n) ==
    {<<l.child, l.order>> : l \in {x \in ls : x.parent = <<f, n>>}}

C15_CreateCopiesSource ==
    [][\A f \in families, source \in VersionNumbers :
          (/\ VersionExists(f, source)
           /\ PublishedOf(f) # {}
           /\ Version_create(f, source)) =>
              LET new == MaxOf(VersionsOf(f)) + 1
              IN  /\ response'.status = 201
                  /\ versions'[f][new].state = "draft"
                  /\ node_parameters'[f][new] = node_parameters[f][source]
                  /\ LinkTargets(links', f, new) = LinkTargets(links, f, source)
      ]_vars

(***************************************************************************)
(* C16: cloning a version v with createVersion(family, source=v) and       *)
(* publishing the clone gives the clone the resolved parameter map v had,  *)
(* for every subnode and without a subnode.                                *)
(***************************************************************************)
Resolved(np, snpv, f, n, subnode_id) ==
    [k \in Parameters |->
        IF subnode_id # NoSubNode /\ snpv[subnode_id][k] # Absent
        THEN snpv[subnode_id][k]
        ELSE np[f][n][k]]

C16_CloneResolvesAlike ==
    [][\A f \in families, source \in VersionNumbers :
          (/\ VersionExists(f, source)
           /\ PublishedOf(f) # {}
           /\ Version_create(f, source)) =>
              LET clone_version == MaxOf(VersionsOf(f)) + 1
              IN  /\ VersionExists(f, clone_version)'
                  /\ \A sn \in SubNodes \cup {NoSubNode} :
                        Resolved(node_parameters', subnode_parameter_values',
                                 f, clone_version, sn)
                        = Resolved(node_parameters, subnode_parameter_values,
                                   f, source, sn)
      ]_vars

(***************************************************************************)
(* C17: in every reachable state every NodeVersionLink joins versions of   *)
(* two different families, the child's family being a declared child of    *)
(* the parent's family, whether the link was made by linkSubversion, by    *)
(* version creation or by SubNode creation.                                *)
(***************************************************************************)
C17_LinksAcrossDeclaredFamilies ==
    \A l \in links :
        /\ l.parent[1] # l.child[1]
        /\ <<l.parent[1], l.child[1]>> \in relationships

(***************************************************************************)
(* C18: linkSubversion is rejected and inserts no link whenever the child  *)
(* is of the parent's family, or the child's family is not a declared      *)
(* child of the parent's family, or the child version is not published.    *)
(***************************************************************************)
C18_LinkSubversionValidates ==
    [][\A f \in families, n \in VersionNumbers, cf \in families,
         cn \in VersionNumbers, order \in LinkOrders :
          (/\ VersionExists(f, n)
           /\ VersionExists(cf, cn)
           /\ \/ cf = f
              \/ <<f, cf>> \notin relationships
              \/ versions[cf][cn].state # "published"
           /\ link_subversion(f, n, cf, cn, order)) =>
              /\ response'.status >= 400
              /\ links' = links
      ]_vars

(***************************************************************************)
(* C19: execute on a version that is not published is rejected and creates *)
(* no NodeExecution; execute on a published version creates exactly one    *)
(* NodeExecution, whose status is running as soon as readers can see it.   *)
(***************************************************************************)
ExecutionRows == {e \in ExecutionIds : executions[e].status # "none"}

C19_ExecuteCreatesRunning ==
    [][\A f \in families, n \in VersionNumbers :
          (VersionExists(f, n) /\ execute(f, n)) =>
              IF versions[f][n].state # "published"
              THEN /\ response'.status >= 400
                   /\ executions' = executions
              ELSE \E e \in ExecutionIds \ ExecutionRows :
                      /\ executions'[e].status = "running"
                      /\ executions'[e].family = f
                      /\ executions'[e].version = n
                      /\ \A x \in ExecutionIds \ {e} : executions'[x] = executions[x]
      ]_vars

(***************************************************************************)
(* C20: when the script raises, the run under way handles the error and    *)
(* returns: the object it returns has status failed, and unless a stop     *)
(* request has written the row after it, the row has status failed, a      *)
(* completion time and the error in its log.                               *)
(***************************************************************************)
LogHas(log, msg) == \E i \in 1 .. Len(log) : log[i] = msg

C21_ExecutionsTerminate ==
    \A e \in ExecutionIds :
        (executions[e].status \in {"queued", "running"})
            ~> (/\ executions[e].status \in TerminalStatuses
                /\ executions[e].completed_at # NullTime)

\* C22: a script with neither a module-level run nor a class with a run
\* method ends its run on the way to status completed, with the
\* no-entry-point line in the log, whatever classes the module holds.
C22_NoEntryPointCompletes ==
    [][\A e \in ExecutionIds, module \in Modules :
          (/\ module.run = "none"
           /\ \A i \in 1 .. Len(module.classes) : module.classes[i].run = "none"
           /\ execute_node_sync_run(e, module))
          => /\ runner'[e].pc = "log_completed"
             /\ LogHas(executions'[e].log, "no_run_found")]_vars

\* C23: a stop request answered for an execution that is not running fails
\* and leaves the record as it is; the save of a stop request finds the
\* execution running and writes status stopped, the current time as
\* completed_at and the log that was there with the stop line appended.
C23_StopOnlyRunning ==
    [][\A e \in ExecutionIds :
          /\ \A f \in Families :
                (executions[e].status \notin {"none", "running"}
                 /\ stop_execution_get(f, e))
                => /\ response'.status >= 400
                   /\ executions' = executions
          /\ stop_execution_save(e)
                => /\ executions[e].status = "running"
                   /\ executions'[e] =
                         [executions[e] EXCEPT
                             !.status = "stopped",
                             !.completed_at = now,
                             !.log = Append(executions[e].log, "manually_stopped")]
       ]_vars

\* C24: every line a run appends to its execution's log is also enqueued on
\* the broadcaster, after the line is saved: once the line is in the row,
\* the broadcaster has seen at least as many enqueue calls as the log of
\* the run has lines.
C24_LoggedLinesEnqueued ==
    \A e \in ExecutionIds :
        runner[e].pc \in {"sync_start", "sync_params", "sync_run", "sync_error",
                          "log_completed", "except", "finally", "done"}
            => enqueued >= Len(runner[e].execution.log)

(***************************************************************************)
(* Claims on the log broadcaster (specification SpecBroadcast).             *)
(***************************************************************************)
\* C25: messages reach every observer in the order of their enqueue calls
\* (an observer never receives a message after a later one), and while a
\* message is broadcast every registered observer is still to be served,
\* or has failed, or has received it as its latest message: an observer
\* registered through the drain of two messages whose sends succeed gets
\* both, the earlier first.
C25_DeliveredInEnqueueOrder ==
    /\ \A ws \in Observers :
          \A i, j \in 1 .. Len(received[ws]) :
              i < j => received[ws][i] < received[ws][j]
    /\ drain.pc = "sending" =>
          \A ws \in connections :
              \/ ws \in drain.todo
              \/ ws \in drain.dead
              \/ /\ received[ws] # <<>>
                 /\ received[ws][Len(received[ws])] = drain.message

C25_Witness ==
    /\ received["ws1"] = <<1, 2>>
    /\ received["ws2"] = <<1, 2>>
    /\ message_queue = <<3>>

\* C26: a send that fails puts exactly that observer on the dead list and
\* the broadcast goes on; at the end of the broadcast exactly the observers
\* whose send failed leave the registry, every other registered observer
\* has received the message and stays registered, the drain loop goes on
\* to its next turn, and no execution is touched.
C26_FailedSendRemovesOnlyThatObserver ==
    [][/\ \A ws \in Observers :
             /\ broadcast_send(ws, FALSE)
                   => /\ drain'.dead = drain.dead \cup {ws}
                      /\ drain'.todo = drain.todo \ {ws}
                      /\ drain'.pc = "sending"
                      /\ connections' = connections
                      /\ received' = received
             /\ broadcast_send(ws, TRUE)
                   => /\ drain'.dead = drain.dead
                      /\ drain'.pc = "sending"
                      /\ received'[ws] = Append(received[ws], drain.message)
       /\ broadcast_discard
             => /\ connections' = connections \ drain.dead
                /\ \A ws \in connections' :
                      /\ received[ws] # <<>>
                      /\ received[ws][Len(received[ws])] = drain.message
                /\ drain'.pc = "sleep"
                /\ _running'
                /\ executions' = executions
       /\ drain.pc # "crashed" => drain'.pc # "crashed"
      ]_vars

C26_Witness ==
    /\ drain.pc = "sending"
    /\ drain.todo = {}
    /\ drain.dead = {"ws1"}
    /\ connections = {"ws1", "ws2"}
    /\ received["ws2"] = <<drain.message>>
    /\ received["ws1"] = <<>>

(***************************************************************************)
(* Claims on SubNode versions (specifications SpecSubNode and              *)
(* SpecSubNodeEdit).                                                       *)
(***************************************************************************)

\* C27: after any sequence of subnode operations, two interleaved
\* activate_version requests included, at most one SubNode version of a
\* lineage has is_deployed = true.
C27_OneDeployedPerLineage ==
    \A x \in subnodes, y \in subnodes :
        (/\ _get_original(x) = _get_original(y)
         /\ subnode_fields[x].is_deployed
         /\ subnode_fields[y].is_deployed) => x = y

\* C28: while a SubNode version is deployed, no operation changes its
\* fields or its parameter override values, and every request that edits
\* it is rejected.
C28_DeployedIsReadOnly ==
    [][\A sn \in subnodes :
          subnode_fields[sn].is_deployed =>
             /\ subnode_fields'[sn].description = subnode_fields[sn].description
             /\ subnode_fields'[sn].version = subnode_fields[sn].version
             /\ parameter_values'[sn] = parameter_values[sn]
             /\ subnode_parameter_values'[sn] = subnode_parameter_values[sn]
             /\ \A description \in Descriptions :
                   SubNode_update(sn, description) => response'.status = 400
             /\ \A table \in {"parameter_value", "subnode_parameter_value"},
                   target_version \in 0 .. 1 :
                   update_parameter_values(sn, table, "timeout", "60", target_version)
                      => response'.status = 400]_vars

\* C29: creating a new version of a SubNode (create_editable_version of a
\* deployed version with a comment, or SubNode.create_new_version) yields a
\* row of the same lineage, numbered max + 1 and not deployed, whose
\* parameter overrides equal the source's, so that every NodeVersion
\* resolves alike under the new version and under the source.
C29_NewVersionCopiesOverrides ==
    [][\A sn \in subnodes :
          (\/ create_new_version(sn)
           \/ subnode_fields[sn].is_deployed /\ create_editable_version(sn, TRUE)) =>
             \E new_version \in subnodes' \ subnodes :
                /\ subnode_fields'[new_version].original = _get_original(sn)
                /\ subnode_fields'[new_version].version
                      = _max_version(_get_original(sn)) + 1
                /\ ~subnode_fields'[new_version].is_deployed
                /\ parameter_values'[new_version] = parameter_values[sn]
                /\ subnode_parameter_values'[new_version]
                      = subnode_parameter_values[sn]
                /\ \A f \in families, n \in VersionNumbers :
                      VersionExists(f, n) =>
                         Resolved(node_parameters', subnode_parameter_values',
                                  f, n, new_version)
                         = Resolved(node_parameters, subnode_parameter_values,
                                    f, n, sn)]_vars

\* C30: once a NodeVersion is published, its script and its NodeParameter
\* rows (which parameters are attached, and their values) never change,
\* while it is published and after it is archived.
C30_PublishedIsImmutable ==
    [][\A f \in families, n \in VersionNumbers :
          versions[f][n].state \in {"published", "archived"} =>
             /\ versions'[f][n].script = versions[f][n].script
             /\ node_parameters'[f][n] = node_parameters[f][n]]_vars

(***************************************************************************)
(* Claims on the catalog and add_parameter (specification SpecAttach).     *)
(***************************************************************************)

\* C31: add_parameter with any requested parameter inactive or unknown is
\* rejected and attaches nothing: no NodeParameter row, not even for the
\* active parameters of the request, and no subnode override row;
\* deactivating a parameter leaves every NodeParameter row and every
\* subnode override row as it was.
C31_InactiveBlocksAttachment ==
    [][/\ \A f \in RequestFamilies, n \in VersionNumbers,
            param_ids \in SUBSET (Parameters \cup {UnknownParameter}) :
            (/\ \E p \in param_ids : p \notin Parameters \/ ~is_active[p]
             /\ add_parameter(f, n, param_ids)) =>
                /\ response'.status >= 400
                /\ node_parameters' = node_parameters
                /\ parameter_values' = parameter_values
                /\ subnode_parameter_values' = subnode_parameter_values
       /\ \A p \in Parameters :
            Parameter_undeploy(p) =>
                /\ node_parameters' = node_parameters
                /\ parameter_values' = parameter_values
                /\ subnode_parameter_values' = subnode_parameter_values]_vars

\* a request naming the active parameter path and the inactive parameter
\* timeout has been answered 400, on a version that holds a NodeParameter
\* row of timeout from before its deactivation and none of path
C31_Witness ==
    /\ response = Response(400, "parameters_not_found")
    /\ ~is_active["timeout"] /\ is_active["path"]
    /\ node_parameters["F1"][1]["timeout"] # Absent
    /\ node_parameters["F1"][1]["path"] = Absent
    /\ subnode_parameter_values["sn1"]["timeout"] = "60"

(***************************************************************************)
(* Claims on the persisted log and on the entry point of a run             *)
(* (specification SpecExec).                                               *)
(***************************************************************************)

\* C32: the persisted log of an execution is append-only: every value
\* written to the row extends the value the row held, so that no persisted
\* line, the stop line included, is lost and lines keep their order.
C32_PersistedLogAppendOnly ==
    [][\A e \in ExecutionIds :
          executions[e].status # "none" =>
             LET old == executions[e].log
                 new == executions'[e].log
             IN  /\ Len(old) <= Len(new)
                 /\ SubSeq(new, 1, Len(old)) = old]_vars

\* C33: with a module-level run function the runner calls it and
\* instantiates no class; otherwise it instantiates the first class the
\* module defines, assigns the matching parameters to the instance, and
\* only then calls the instance's run method, if it has one.
C33_FirstDefinedClassRuns ==
    [][\A e \in ExecutionIds, module \in Modules :
          execute_node_sync_run(e, module) =>
             IF module.run # "none"
             THEN Calls(module) = <<<<"run", 0>>>>
             ELSE \A i \in DOMAIN module.classes :
                     (module.classes[i].defined_first
                      /\ ~module.classes[i].init_raises) =>
                        Calls(module) =
                           <<<<"init", i>>, <<"setattr", i>>>>
                           \o (IF module.classes[i].run = "none" THEN <<>>
                               ELSE <<<<"run", i>>>>)]_vars

(***************************************************************************)
(* Claims on what a run resolves (specification SpecResolve).              *)
(***************************************************************************)

\* C34: a parameter with no NodeParameter row on the version is absent
\* from what the runner resolves for the version and the subnode, unless
\* the subnode given has an override row for it, and then the key has the
\* override's value; with no subnode given it is absent.
C34_UnattachedOnlyByOverride ==
    (run.resolver = "runner" /\ run.params = NoParameters)
    => \A k \in Parameters :
          node_parameters[run.family][run.version][k] = Absent =>
             run.run_params[k] =
                IF run.subnode_id = NoSubNode THEN Absent
                ELSE subnode_parameter_values[run.subnode_id][k]

\* a run with a subnode resolved a key the version does not hold to the
\* subnode's override, and left out another key that neither holds
C34_Witness ==
    /\ run.resolver = "runner" /\ run.params = NoParameters
    /\ run.subnode_id \in SubNodes
    /\ run.version = 1
    /\ node_parameters[run.family][run.version] = NoParameters
    /\ subnode_parameter_values[run.subnode_id]["timeout"] = "60"
    /\ subnode_parameter_values[run.subnode_id]["path"] = Absent
    /\ run.run_params["timeout"] = "60"
    /\ run.run_params["path"] = Absent

(***************************************************************************)
(* Claims on the broadcaster's lock, its drain task and what observers     *)
(* receive (specifications SpecBroadcast and SpecBroadcastFair).           *)
(***************************************************************************)

\* C35: the broadcaster's lock is never held while a send to an observer
\* is in progress, so that register and unregister never wait for a send:
\* whenever sends of a broadcast remain to be done, every register call
\* can go ahead.
C35_NoSendUnderLock ==
    (drain.pc = "sending" /\ drain.todo # {}) =>
        \A ws \in Observers : ENABLED register(ws)

\* C36: once the broadcaster is running, every message on the queue is
\* eventually taken off it, given that the drain task is scheduled and its
\* sends return or fail, and no observer receives a message twice; failed
\* sends do not keep a message on the queue.
C36_QueueDrains ==
    /\ \A n \in 1 .. MaxMessages :
          (_running /\ \E i \in 1 .. Len(message_queue) : message_queue[i] = n)
          ~> (\A i \in 1 .. Len(message_queue) : message_queue[i] # n)
    /\ [](\A ws \in Observers :
            \A i \in 1 .. Len(received[ws]), j \in 1 .. Len(received[ws]) :
               received[ws][i] = received[ws][j] => i = j)

\* every message has left the queue, the second after a send to ws1
\* failed and removed it, the third broadcast to ws2 alone
C36_Witness ==
    /\ enqueued = MaxMessages
    /\ message_queue = <<>>
    /\ drain.pc = "sleep"
    /\ connections = {"ws2"}
    /\ received["ws1"] = <<1>>
    /\ received["ws2"] = <<1, 2, 3>>

\* C37: however often start is called, at most one drain task is created:
\* the task exists exactly when the broadcaster is running, a call of start
\* on a running broadcaster leaves the task where it is, and a running
\* broadcaster never stops running.
C37_StartedOnce ==
    [][/\ _running <=> drain.pc # "not_started"
       /\ _running => _running'
       /\ (_running /\ start) => drain' = drain]_vars

\* the broadcaster is running and its one task is in the middle of a
\* broadcast, the last message taken, where a further start may be called
C37_Witness ==
    /\ _running
    /\ drain.pc = "sending"
    /\ drain.message = MaxMessages
    /\ drain.todo # {}

\* C38: a message the drain loop dequeues while no observer is registered
\* is discarded: it leaves the queue, no broadcast of it is begun and no
\* observer receives it later; a message dequeued with observers registered
\* goes to those observers only, and a message that is neither queued nor
\* being broadcast is never received by anyone any more.
C38_NoRedelivery ==
    [][/\ (process_queue /\ message_queue # <<>>) =>
             /\ message_queue' = Tail(message_queue)
             /\ received' = received
             /\ IF connections = {}
                THEN drain'.pc = "sleep"
                ELSE /\ drain'.pc = "sending"
                     /\ drain'.message = Head(message_queue)
                     /\ drain'.todo = connections
       /\ \A ws \in Observers :
             received'[ws] # received[ws] =>
                /\ drain.pc = "sending" /\ ws \in drain.todo
                /\ received'[ws] = Append(received[ws], drain.message)
       /\ \A n \in 1 .. MaxMessages :
             (/\ n <= enqueued
              /\ \A i \in 1 .. Len(message_queue) : message_queue[i] # n
              /\ ~(drain.pc = "sending" /\ drain.message = n)) =>
                \A ws \in Observers : received'[ws] = received[ws]
                   \/ received'[ws][Len(received'[ws])] # n]_vars

\* the first message was dequeued with no observer registered and is in no
\* observer's hands; ws1, registered after it, has received the second
C38_Witness ==
    /\ message_queue = <<3>>
    /\ drain.pc = "sleep"
    /\ connections = {"ws1"}
    /\ received["ws1"] = <<2>>
    /\ received["ws2"] = <<>>

(***************************************************************************)
(* Further claims on SubNode versions (specification SpecSubNodeEdit).     *)
(***************************************************************************)

\* C39: activate_version with a version number the lineage of the subnode
\* does not hold answers not found and leaves is_deployed of every version
\* of the lineage as it was: the deployed version stays deployed.
C39_ActivateMissingChangesNothing ==
    [][/\ \A sn \in subnodes, version_number \in 1 .. MaxSubNodeVersion :
             (/\ VersionRows(sn, version_number) = {}
              /\ activate_version_clear("r1", sn, version_number)) =>
                subnode_fields' = subnode_fields
       /\ (/\ activations["r1"].pc = "set"
           /\ \A x \in get_all_versions(subnodes, subnode_fields,
                                         activations["r1"].original_ref) :
                 subnode_fields[x].version # activations["r1"].version_number
           /\ activate_version_set("r1")) =>
              /\ response'.status = 404
              /\ subnode_fields' = subnode_fields]_vars

\* C40: for every subnode and parameter the ParameterValue row and the
\* SubNodeParameterValue row hold the same value (or are both missing)
\* after any sequence of operations, so that the override the API shows
\* and updates is the override a run applies.
C40_BothTablesAgree ==
    \A sn \in subnodes, p \in Parameters :
        parameter_values[sn][p] = subnode_parameter_values[sn][p]

====
